---------------------------- MODULE Spec2Model ----------------------------
(***************************************************************************)
(* A model of the theine cache: the sharded key/entry maps, the write      *)
(* buffer, the policy lock, the maintenance task and the memoizers, as     *)
(* state machines over small sets of keys, values and TTLs.                *)
(*                                                                         *)
(* The policy (theine_core.TlfuCore) is a native component; its            *)
(* operations are modelled from their description in spec.md section 4.4.  *)
(***************************************************************************)
EXTENDS Integers, Sequences, FiniteSets, TLC

(***************************************************************************)
(* Bounds of the model.                                                    *)
(***************************************************************************)
MaxCap == 1          \* the set workload's caches have a size of 1 .. MaxCap
MaxSets == 2         \* set calls issued in one run of the set workload
MaxTime == 1         \* the monotonic clock runs from 0 to MaxTime

(***************************************************************************)
(* Program constants.                                                      *)
(***************************************************************************)
BufferSize == 16     \* write_buffer.py: BufferSize
StripeSize == 16     \* striped_buffer.py: buffer_size
BufferCount == 4     \* striped_buffer.py: buffer_count, with one CPU
ShardCount == 16     \* theine.py: the minimum shard count
DeleteTtl == -1      \* theine.py: Cache.delete stages (kh, -1)

Threads == {1, 2, 3}
CacheThreads == {1, 2}   \* the threads of the get/set/delete workloads
Maint == 9           \* the maintenance task, as a holder of the policy lock
Free == 0            \* a lock nobody holds

Keys == {"a", "b", "c", "d"}
NoKey == "-"
Values == {1, 2}
NoValue == 0         \* Python's None

\* kh = spread(hash(key)): the key's fingerprint; "c" and "d" collide.
KeyHash(k) == CASE k = "a" -> 1 [] k = "b" -> 2 [] k = "c" -> 3 [] OTHER -> 3
Fps == {KeyHash(k) : k \in Keys}

\* kh & (shard_count - 1)
ShardOf(kh) == kh % ShardCount
ShardIds == 0 .. (ShardCount - 1)

\* The ttl argument of set: <<>> is None, <<n>> a timedelta of n clock units.
NoTtl == <<>>

VARIABLES
    now,        \* time.monotonic_ns()
    closed,     \* Cache._closed
    capacity,   \* Cache.max_size: the size the cache was constructed with
    smap,       \* Shard._map of the key's shard: key -> Entry
    keymap,     \* Shard._key_map of the fingerprint's shard: fingerprint -> key
    hits,       \* Shard._hits, per shard
    misses,     \* Shard._misses, per shard
    stripes,    \* StripedBuffer.buffers: the samples of each stripe
    buffer,     \* WriteBuffer.buffer[:tail]
    wbLock,     \* WriteBuffer.mutex: its holder
    coreLock,   \* Cache._core_mutex: its holder
    policy,     \* the policy: its three segments and its deadlines
    pc,         \* where each user thread is
    arg,        \* the record (key_hash, ttl) a thread passes to WriteBuffer.add, or (key_hash, index) in StripedBuffer.add
    batch,      \* the records a thread took from the write buffer (wb)
    evicted,    \* the fingerprints a thread still has to remove from the shards
    waiting,    \* the full stripe a thread took to drain into the policy
    ret,        \* what the thread's last get or delete returned, or that its set raised
    mpc,        \* where the maintenance task is
    mevicted,   \* the fingerprints advance() returned to it
    ops,        \* the number of operations issued so far
    last,       \* history: the value of the latest set of each key (0: none)
    mttl,       \* Cache._ttl: the ttl the memoizer was created with
    events,     \* Cache._events: key -> the in-flight EventData
    evs,        \* the EventData objects: [set, data], by the call that made them
    mid,        \* the call a thread is in (it names the EventData it created)
    mkey,       \* the key of the memoized call a thread is in
    mve,        \* ve: the EventData that setdefault returned to the thread
    pcalls,     \* history: how often the producer was invoked, per key
    aws,        \* the CachedAwaitable objects, in the order fetch created them
    tasks,      \* the asyncio tasks that call and await the async memoized function
    cur,        \* the task whose fetch the event loop thread is running (0: none)
    clearing,   \* the shards a thread's clear() has still to empty (<<>>: not in clear)
    wlog,       \* history: the records appended to the write buffer and those passed to policy.set
    nolock,     \* Cache._nolock: the mode the cache was constructed in
    slock,      \* StripedBuffer.mutexes: the holder of each stripe's lock
    rlog,       \* history: the number of samples appended to the stripes and of those passed to policy.access
    peer,       \* a second cache instance: its _closed, its policy lock and its maintenance task
    late        \* a WriteBuffer.add moved the tail after the running _force_drain_write read the buffer

vars == <<now, closed, capacity, clearing, wlog, smap, keymap, hits, misses, stripes, buffer, wbLock,
          coreLock, policy, pc, arg, batch, evicted, waiting, ret, mpc,
          mevicted, ops, last, mttl, events, evs, mid, mkey, mve, pcalls, aws, tasks, cur,
          nolock, slock, rlog, peer, late>>

shardVars == <<smap, keymap, hits, misses>>
wbVars == <<buffer, wbLock>>
maintVars == <<mpc, mevicted>>
asyncVars == <<aws, tasks, cur>>
memoVars == <<mttl, events, evs, mid, mkey, mve, pcalls, aws, tasks, cur>>

(***************************************************************************)
(* Entries and shards.                                                     *)
(***************************************************************************)
NoEntry == [value |-> NoValue, expire |-> -1]
Entry(v, e) == [value |-> v, expire |-> e]
Present(m, k) == m[k] # NoEntry

\* A _ttl_nano that raises for no ttl.
TtlRaisesNever(ttl) == FALSE

\* ttl_ns of Cache._ttl_nano; a ttl of exactly zero raises.
TtlRaises(ttl) == ttl # NoTtl /\ ttl[1] = 0
TtlNano(ttl) == IF ttl = NoTtl THEN 0 ELSE ttl[1]

\* expire of Shard.set, Shard._set_nolock and Shard.set_ttl
ExpireOf(ttl_ns, t) == IF ttl_ns > 0 THEN t + ttl_ns ELSE 0

\* entry.expire > 0 and entry.expire <= time.monotonic_ns()
Expired(e, t) == e.expire > 0 /\ e.expire <= t

\* Shard.get and Shard._get_nolock: the maps after the lookup of key k
ShardGetMap(m, k, t) ==
    IF Present(m, k) /\ Expired(m[k], t) THEN [m EXCEPT ![k] = NoEntry] ELSE m

ShardGetKeyMap(m, km, k, kh, t) ==
    IF Present(m, k) /\ Expired(m[k], t) THEN [km EXCEPT ![kh] = NoKey] ELSE km

ShardGetOk(m, k, t) == Present(m, k) /\ ~Expired(m[k], t)

ShardGetValue(m, k, t) == IF ShardGetOk(m, k, t) THEN m[k].value ELSE NoValue

\* A set that leaves the entry of a key that is already present untouched.
ShardSetMapKeepsPrevious(m, km, k, kh, v, ttl_ns, t) ==
    IF Present(m, k) THEN m ELSE [m EXCEPT ![k] = Entry(v, ExpireOf(ttl_ns, t))]

\* A set that leaves the previous holder of the fingerprint in the entry-map.
ShardSetMapKeepsCollided(m, km, k, kh, v, ttl_ns, t) ==
    [m EXCEPT ![k] = Entry(v, ExpireOf(ttl_ns, t))]

\* Shard.set and Shard._set_nolock: the previous holder of the fingerprint is
\* removed first, then the entry and the fingerprint are stored.
ShardSetMap(m, km, k, kh, v, ttl_ns, t) ==
    LET m1 == IF km[kh] # NoKey THEN [m EXCEPT ![km[kh]] = NoEntry] ELSE m
    IN  [m1 EXCEPT ![k] = Entry(v, ExpireOf(ttl_ns, t))]

ShardSetKeyMap(km, k, kh) == [km EXCEPT ![kh] = k]

\* A remove that leaves the fingerprint in the fingerprint-map.
ShardRemoveKeyMapKept(km, kh) == km

\* Shard.remove: pops the fingerprint, then deletes its key
ShardRemoveMap(m, km, kh) ==
    IF km[kh] # NoKey THEN [m EXCEPT ![km[kh]] = NoEntry] ELSE m

ShardRemoveKeyMap(km, kh) == [km EXCEPT ![kh] = NoKey]

ShardRemoveOk(m, km, kh) == km[kh] # NoKey /\ Present(m, km[kh])

\* Shard.remove_expired: removes the fingerprint and its key when both maps
\* hold them; the entry's expiration is not read.
RemoveExpiredHit(m, km, kh) == km[kh] # NoKey /\ Present(m, km[kh])

ShardRemoveExpiredMap(m, km, kh) ==
    IF RemoveExpiredHit(m, km, kh) THEN [m EXCEPT ![km[kh]] = NoEntry] ELSE m

ShardRemoveExpiredKeyMap(m, km, kh) ==
    IF RemoveExpiredHit(m, km, kh) THEN [km EXCEPT ![kh] = NoKey] ELSE km

\* Cache.__len__: the sum of the shards' len(_map)
CacheLen == Cardinality({k \in Keys : Present(smap, k)})

(***************************************************************************)
(* The policy (spec.md 4.4 and 4.5): three LRU segments, front first, and  *)
(* the timer wheel as each node's deadline (0: no timer).  The frequency   *)
(* sketch only decides between the two eviction candidates; its estimate   *)
(* is a choice between them.                                               *)
(***************************************************************************)
\* Window is about 1% of the capacity and at least 1; Protected is 80% of Main.
WindowCap(cap) == IF cap \div 100 > 0 THEN cap \div 100 ELSE 1
ProtectedCap(cap) == ((cap - WindowCap(cap)) * 8) \div 10

EmptyPolicy ==
    [window |-> <<>>, probation |-> <<>>, protected |-> <<>>,
     expire |-> [f \in Fps |-> 0]]

SeqSet(s) == {s[i] : i \in 1 .. Len(s)}
Without(s, x) == SelectSeq(s, LAMBDA y : y # x)
Front(s) == SubSeq(s, 1, Len(s) - 1)
Last(s) == s[Len(s)]

PolicyFps(p) == SeqSet(p.window) \cup SeqSet(p.probation) \cup SeqSet(p.protected)
PolicyLen(p) == Len(p.window) + Len(p.probation) + Len(p.protected)

\* A node is touched as in access: Window and Protected move it to their
\* front, Probation promotes it to Protected, whose overflow goes back to the
\* front of Probation.
PolicyTouch(p, fp, cap) ==
    IF fp \in SeqSet(p.window)
    THEN [p EXCEPT !.window = <<fp>> \o Without(p.window, fp)]
    ELSE IF fp \in SeqSet(p.protected)
    THEN [p EXCEPT !.protected = <<fp>> \o Without(p.protected, fp)]
    ELSE IF fp \in SeqSet(p.probation)
    THEN LET prot == <<fp>> \o p.protected
             prob == Without(p.probation, fp)
         IN  IF Len(prot) > ProtectedCap(cap)
             THEN [p EXCEPT !.protected = Front(prot),
                            !.probation = <<Last(prot)>> \o prob]
             ELSE [p EXCEPT !.protected = prot, !.probation = prob]
    ELSE p

\* delete(fp): the node leaves its segment and its timer is cancelled
PolicyDelete(p, fp) ==
    [window |-> Without(p.window, fp),
     probation |-> Without(p.probation, fp),
     protected |-> Without(p.protected, fp),
     expire |-> [p.expire EXCEPT ![fp] = 0]]

\* The nodes victim selection may evict: the tail of Probation or the entry
\* the new candidate displaced to the front of Probation.
Victims(p) ==
    IF Len(p.probation) > 0 THEN {Last(p.probation), Head(p.probation)}
    ELSE IF Len(p.window) > 0 THEN {Last(p.window)}
    ELSE {Last(p.protected)}

\* A new fingerprint enters at the front of Window; Window's overflow moves
\* its tail to the front of Probation.
PolicyAdmit(p, fp, cap) ==
    LET w == <<fp>> \o p.window
    IN  IF Len(w) > WindowCap(cap)
        THEN [p EXCEPT !.window = Front(w),
                       !.probation = <<Last(w)>> \o p.probation]
        ELSE [p EXCEPT !.window = w]

\* One record of set(records) at time t: the outcomes [pol, ev], ev the
\* evicted fingerprints.
PolicySetOne(p, rec, t, cap) ==
    LET fp == rec[1]
        ttl == rec[2]
    IN  IF ttl = DeleteTtl THEN {[pol |-> PolicyDelete(p, fp), ev |-> <<>>]}
        ELSE LET q == [p EXCEPT !.expire[fp] = IF ttl > 0 THEN t + ttl ELSE 0]
             IN  IF fp \in PolicyFps(p)
                 THEN {[pol |-> PolicyTouch(q, fp, cap), ev |-> <<>>]}
                 ELSE LET a == PolicyAdmit(q, fp, cap)
                      IN  IF PolicyLen(a) > cap
                          THEN {[pol |-> PolicyDelete(a, v), ev |-> <<v>>] :
                                    v \in Victims(a)}
                          ELSE {[pol |-> a, ev |-> <<>>]}

\* set(records) -> evicted: the records are applied in order
RECURSIVE PolicySet(_, _, _, _)
PolicySet(p, recs, t, cap) ==
    IF recs = <<>> THEN {[pol |-> p, ev |-> <<>>]}
    ELSE UNION {{[pol |-> o2.pol, ev |-> o1.ev \o o2.ev] :
                     o2 \in PolicySet(o1.pol, Tail(recs), t, cap)} :
                o1 \in PolicySetOne(p, Head(recs), t, cap)}

\* access(fingerprints): unknown fingerprints are ignored
RECURSIVE PolicyAccess(_, _, _)
PolicyAccess(p, fps, cap) ==
    IF fps = <<>> THEN p
    ELSE PolicyAccess(PolicyTouch(p, Head(fps), cap), Tail(fps), cap)

\* advance(): the fingerprints whose deadline is not later than t, in
\* ascending order; their nodes are removed from the policy.
Due(p, t) == {f \in PolicyFps(p) : p.expire[f] > 0 /\ p.expire[f] <= t}

RECURSIVE SortedSeq(_)
SortedSeq(S) ==
    IF S = {} THEN <<>>
    ELSE LET m == CHOOSE x \in S : \A y \in S : x <= y
         IN  <<m>> \o SortedSeq(S \ {m})

RECURSIVE PolicyDeleteAll(_, _)
PolicyDeleteAll(p, fps) ==
    IF fps = <<>> THEN p ELSE PolicyDeleteAll(PolicyDelete(p, Head(fps)), Tail(fps))

PolicyAdvanceKeys(p, t) == SortedSeq(Due(p, t))
PolicyAdvance(p, t) == PolicyDeleteAll(p, PolicyAdvanceKeys(p, t))

(***************************************************************************)
(* The synchronous memoizer: Cache._get_or_compute in locking mode.        *)
(***************************************************************************)
MaxCalls == 3        \* memoized calls issued in one run

CallIds == 1 .. MaxCalls
NoEvent == [set |-> FALSE, data |-> NoValue]

\* The value the producer returns for a key.
ProducerValue(k) == CASE k = "a" -> 1 [] k = "b" -> 2 [] k = "c" -> 3 [] OTHER -> 4

MaxTasks == 3        \* asyncio tasks that call the async memoized function
TaskIds == 1 .. MaxTasks
AwIds == 1 .. MaxTasks
NoAw == [key |-> NoKey, result |-> NoValue, exc |-> 0, fut |-> FALSE, runs |-> 0,
         exp |-> -1]
NoTask == [st |-> "new", aw |-> 0, key |-> NoKey, val |-> NoValue, exc |-> 0, via |-> "-"]

MemoInitFor(ttls, calls) ==
    /\ mttl \in ttls
    /\ events = [k \in Keys |-> 0]
    /\ evs = [c \in calls |-> NoEvent]
    /\ mid = [t \in Threads |-> 0]
    /\ mkey = [t \in Threads |-> NoKey]
    /\ mve = [t \in Threads |-> 0]
    /\ pcalls = [k \in Keys |-> 0]
    /\ aws = [x \in AwIds |-> NoAw]
    /\ tasks = [j \in TaskIds |-> NoTask]
    /\ cur = 0

MemoInit(ttls) == MemoInitFor(ttls, CallIds)

(***************************************************************************)
(* The state after construction (Cache.__init__).                          *)
(***************************************************************************)
NoRec == <<0, 0>>

\* The history of the write buffer; it is kept by the workloads that start
\* with NewLog and stays NoLog in the others.  busy: an add has found the
\* policy lock held.
NoLog == [on |-> FALSE, staged |-> <<>>, applied |-> <<>>, busy |-> FALSE]
NewLog == [on |-> TRUE, staged |-> <<>>, applied |-> <<>>, busy |-> FALSE]
LogStaged(l, rec) == IF l.on THEN [l EXCEPT !.staged = Append(@, rec)] ELSE l
LogApplied(l, recs) == IF l.on THEN [l EXCEPT !.applied = @ \o recs] ELSE l
LogBusy(l) == IF l.on THEN [l EXCEPT !.busy = TRUE] ELSE l
NoRet == [val |-> NoValue, ok |-> FALSE, err |-> FALSE]
StripeIds == 0 .. (BufferCount - 1)

CacheInitMode(caps, log, modes) ==
    /\ nolock \in modes
    /\ slock = [i \in StripeIds |-> Free]
    /\ rlog = [appended |-> 0, delivered |-> 0]
    /\ peer = [closed |-> FALSE, lock |-> Free, mpc |-> "sleep", uses |-> 0]
    /\ late = FALSE
    /\ now = 0
    /\ closed = FALSE
    /\ capacity \in caps
    /\ smap = [k \in Keys |-> NoEntry]
    /\ keymap = [f \in Fps |-> NoKey]
    /\ hits = [s \in ShardIds |-> 0]
    /\ misses = [s \in ShardIds |-> 0]
    /\ stripes = [i \in StripeIds |-> <<>>]
    /\ buffer = <<>>
    /\ wbLock = Free
    /\ coreLock = Free
    /\ policy = EmptyPolicy
    /\ pc = [t \in Threads |-> "idle"]
    /\ arg = [t \in Threads |-> NoRec]
    /\ batch = [t \in Threads |-> <<>>]
    /\ evicted = [t \in Threads |-> <<>>]
    /\ waiting = [t \in Threads |-> <<>>]
    /\ ret = [t \in Threads |-> NoRet]
    /\ mpc = "sleep"
    /\ mevicted = <<>>
    /\ ops = 0
    /\ last = [k \in Keys |-> NoValue]
    /\ clearing = [t \in Threads |-> <<>>]
    /\ wlog = log

CacheInitWith(caps, log) == CacheInitMode(caps, log, {FALSE})

CacheInit(caps) == CacheInitWith(caps, NoLog)

\* One more sample has been appended to a stripe.
Appended(l) == [l EXCEPT !.appended = @ + 1]

\* The locks the cache takes unless it was constructed with nolock.
CanTake(lock) == nolock \/ lock = Free
Acquired(lock, t) == IF nolock THEN lock ELSE t
Released(lock) == IF nolock THEN lock ELSE Free

(***************************************************************************)
(* The shard locks.  Every shard operation takes the shard's mutex and     *)
(* releases it before it returns, so it is one step; _get_or_compute alone *)
(* keeps the mutex across a call: its recheck hit calls read_buffer.add    *)
(* inside "with shard._mutex", and a thread at "m_drain" is in the         *)
(* _drain_read of that add with the mutex of its key's shard held.         *)
(***************************************************************************)
HoldsShard(t, s) == pc[t] = "m_drain" /\ ShardOf(KeyHash(mkey[t])) = s
ShardFree(s) == \A t \in Threads : ~HoldsShard(t, s)

(***************************************************************************)
(* Cache.set: _ttl_nano, Shard.set under the shard lock, then              *)
(* WriteBuffer.add.                                                        *)
(***************************************************************************)
Set(t, k, v, ttl) ==
    /\ pc[t] = "idle"
    /\ ops' = ops + 1
    /\ IF TtlRaises(ttl)
       THEN /\ ret' = [ret EXCEPT ![t] = [val |-> NoValue, ok |-> FALSE, err |-> TRUE]]
            /\ UNCHANGED <<smap, keymap, pc, arg, last>>
       ELSE /\ ShardFree(ShardOf(KeyHash(k)))
            /\ smap' = ShardSetMap(smap, keymap, k, KeyHash(k), v, TtlNano(ttl), now)
            /\ keymap' = ShardSetKeyMap(keymap, k, KeyHash(k))
            /\ arg' = [arg EXCEPT ![t] = <<KeyHash(k), TtlNano(ttl)>>]
            /\ pc' = [pc EXCEPT ![t] = "wb_add"]
            /\ last' = [last EXCEPT ![k] = v]
            /\ ret' = ret
    /\ UNCHANGED <<now, closed, capacity, nolock, peer, late, slock, rlog, clearing, wlog, hits, misses, stripes, buffer, wbLock, coreLock,
                   policy, batch, evicted, waiting, mpc, mevicted, memoVars>>

(***************************************************************************)
(* Cache.get: Shard.get under the shard lock, then StripedBuffer.add on a  *)
(* hit; a stripe that the sample fills is taken for _drain_read.           *)
(***************************************************************************)
RbIndexes == {0}     \* the values getrandbits(32) & (buffer_count - 1) takes

Get(t, k, i) ==
    LET kh == KeyHash(k)
        ok == ShardGetOk(smap, k, now)
        bs == Len(stripes[i])
    IN  /\ pc[t] = "idle"
        /\ ShardFree(ShardOf(kh))
        /\ ops' = ops + 1
        /\ ret' = [ret EXCEPT ![t] = [val |-> ShardGetValue(smap, k, now),
                                      ok |-> ok, err |-> FALSE]]
        /\ smap' = ShardGetMap(smap, k, now)
        /\ keymap' = ShardGetKeyMap(smap, keymap, k, kh, now)
        /\ hits' = IF ok THEN [hits EXCEPT ![ShardOf(kh)] = @ + 1] ELSE hits
        /\ misses' = IF ok THEN misses ELSE [misses EXCEPT ![ShardOf(kh)] = @ + 1]
        /\ IF ok /\ bs < StripeSize
           THEN IF bs = StripeSize - 1
                THEN /\ waiting' = [waiting EXCEPT ![t] = Append(stripes[i], kh)]
                     /\ stripes' = [stripes EXCEPT ![i] = <<>>]
                     /\ pc' = [pc EXCEPT ![t] = "rb_drain"]
                ELSE /\ stripes' = [stripes EXCEPT ![i] = Append(@, kh)]
                     /\ UNCHANGED <<waiting, pc>>
           ELSE UNCHANGED <<stripes, waiting, pc>>
        /\ rlog' = IF ok /\ bs < StripeSize THEN Appended(rlog) ELSE rlog
        /\ UNCHANGED <<now, closed, capacity, nolock, peer, late, slock, clearing, wlog, buffer, wbLock, coreLock, policy, arg, batch,
                       evicted, mpc, mevicted, last, memoVars>>

(***************************************************************************)
(* Cache.get with the steps of StripedBuffer.add apart: GetSample is       *)
(* Shard.get, RbTry the non-blocking acquire of the stripe's mutex and     *)
(* RbAppend the rest of add up to the release of the mutex.  Get above     *)
(* takes them in one step, which leaves out the sample that is dropped     *)
(* because another reader holds the stripe's mutex.                        *)
(***************************************************************************)
GetSample(t, k) ==
    LET kh == KeyHash(k)
        ok == ShardGetOk(smap, k, now)
    IN  /\ pc[t] = "idle"
        /\ ShardFree(ShardOf(kh))
        /\ ops' = ops + 1
        /\ ret' = [ret EXCEPT ![t] = [val |-> ShardGetValue(smap, k, now),
                                      ok |-> ok, err |-> FALSE]]
        /\ smap' = ShardGetMap(smap, k, now)
        /\ keymap' = ShardGetKeyMap(smap, keymap, k, kh, now)
        /\ hits' = IF ok THEN [hits EXCEPT ![ShardOf(kh)] = @ + 1] ELSE hits
        /\ misses' = IF ok THEN misses ELSE [misses EXCEPT ![ShardOf(kh)] = @ + 1]
        /\ pc' = IF ok THEN [pc EXCEPT ![t] = "rb_try"] ELSE pc
        /\ arg' = IF ok THEN [arg EXCEPT ![t] = <<kh, 0>>] ELSE arg
        /\ UNCHANGED <<now, closed, capacity, nolock, peer, late, slock, rlog, clearing, wlog, stripes, buffer,
                       wbLock, coreLock, policy, batch, evicted, waiting, mpc, mevicted, last,
                       memoVars>>

\* An RbTry that waits for the stripe's mutex.
RbTryBlocking(t, i) ==
    /\ pc[t] = "rb_try"
    /\ nolock \/ slock[i] = Free
    /\ slock' = IF nolock THEN slock ELSE [slock EXCEPT ![i] = t]
    /\ arg' = [arg EXCEPT ![t] = <<arg[t][1], i>>]
    /\ pc' = [pc EXCEPT ![t] = "rb_locked"]
    /\ UNCHANGED <<now, closed, capacity, nolock, peer, late, rlog, clearing, wlog, shardVars, stripes, wbVars,
                   coreLock, policy, batch, evicted, waiting, ret, maintVars, ops, last,
                   memoVars>>

\* index = getrandbits(32) & (buffer_count - 1);
\* self.nolock or self.mutexes[index].acquire(blocking=False): the sample is
\* dropped when the mutex is held
RbTry(t, i) ==
    /\ pc[t] = "rb_try"
    /\ IF nolock \/ slock[i] = Free
       THEN /\ slock' = IF nolock THEN slock ELSE [slock EXCEPT ![i] = t]
            /\ arg' = [arg EXCEPT ![t] = <<arg[t][1], i>>]
            /\ pc' = [pc EXCEPT ![t] = "rb_locked"]
       ELSE /\ arg' = [arg EXCEPT ![t] = NoRec]
            /\ pc' = [pc EXCEPT ![t] = "idle"]
            /\ UNCHANGED slock
    /\ UNCHANGED <<now, closed, capacity, nolock, peer, late, rlog, clearing, wlog, shardVars, stripes, wbVars,
                   coreLock, policy, batch, evicted, waiting, ret, maintVars, ops, last,
                   memoVars>>

\* An RbAppend that hands the stripe over and leaves its samples in place.
RbAppendKeepsStripe(t) ==
    LET kh == arg[t][1]
        i == arg[t][2]
        bs == Len(stripes[i])
    IN  /\ pc[t] = "rb_locked"
        /\ bs < StripeSize
        /\ rlog' = Appended(rlog)
        /\ stripes' = [stripes EXCEPT ![i] = Append(@, kh)]
        /\ waiting' = IF bs = StripeSize - 1
                       THEN [waiting EXCEPT ![t] = Append(stripes[i], kh)] ELSE waiting
        /\ pc' = [pc EXCEPT ![t] = IF bs = StripeSize - 1 THEN "rb_drain" ELSE "idle"]
        /\ slock' = IF nolock THEN slock ELSE [slock EXCEPT ![i] = Free]
        /\ arg' = [arg EXCEPT ![t] = NoRec]
        /\ UNCHANGED <<now, closed, capacity, nolock, peer, late, clearing, wlog, shardVars, wbVars, coreLock,
                       policy, batch, evicted, ret, maintVars, ops, last, memoVars>>

\* bs = len(buffers[index]); a full stripe is left alone (its release of the
\* mutex is unconditional and raises when the mutex was never taken); else the
\* sample is appended, the stripe that it fills is swapped for an empty one,
\* and the mutex is released before clear_buffer(waiting)
RbAppend(t) ==
    LET kh == arg[t][1]
        i == arg[t][2]
        bs == Len(stripes[i])
    IN  /\ pc[t] = "rb_locked"
        /\ IF bs >= StripeSize
           THEN /\ pc' = [pc EXCEPT ![t] = IF nolock THEN "release_error" ELSE "idle"]
                /\ UNCHANGED <<stripes, waiting, rlog>>
           ELSE /\ rlog' = Appended(rlog)
                /\ IF bs = StripeSize - 1
                   THEN /\ waiting' = [waiting EXCEPT ![t] = Append(stripes[i], kh)]
                        /\ stripes' = [stripes EXCEPT ![i] = <<>>]
                        /\ pc' = [pc EXCEPT ![t] = "rb_drain"]
                   ELSE /\ stripes' = [stripes EXCEPT ![i] = Append(@, kh)]
                        /\ pc' = [pc EXCEPT ![t] = "idle"]
                        /\ UNCHANGED waiting
        /\ slock' = IF nolock THEN slock ELSE [slock EXCEPT ![i] = Free]
        /\ arg' = [arg EXCEPT ![t] = NoRec]
        /\ UNCHANGED <<now, closed, capacity, nolock, peer, late, clearing, wlog, shardVars, wbVars, coreLock,
                       policy, batch, evicted, ret, maintVars, ops, last, memoVars>>

\* Cache._drain_read: core.access(keys) with the policy lock held; the lock
\* is waited for.  A thread at "m_drain" returns from "with shard._mutex"
\* afterwards.
DrainRead(t) ==
    /\ pc[t] \in {"rb_drain", "m_drain"}
    /\ CanTake(coreLock)
    /\ policy' = PolicyAccess(policy, waiting[t], capacity)
    /\ waiting' = [waiting EXCEPT ![t] = <<>>]
    /\ rlog' = [rlog EXCEPT !.delivered = @ + Len(waiting[t])]
    /\ pc' = [pc EXCEPT ![t] = "idle"]
    /\ UNCHANGED <<now, closed, capacity, nolock, peer, late, slock, clearing, wlog, shardVars, stripes, wbVars, coreLock, arg, batch,
                   evicted, ret, maintVars, ops, last, memoVars>>

(***************************************************************************)
(* Cache.delete: Shard.remove under the shard lock, then the delete record *)
(* goes to the write buffer.                                               *)
(***************************************************************************)
Delete(t, k) ==
    LET kh == KeyHash(k)
    IN  /\ pc[t] = "idle"
        /\ ShardFree(ShardOf(kh))
        /\ ops' = ops + 1
        /\ ret' = [ret EXCEPT ![t] = [val |-> NoValue,
                                      ok |-> ShardRemoveOk(smap, keymap, kh),
                                      err |-> FALSE]]
        /\ smap' = ShardRemoveMap(smap, keymap, kh)
        /\ keymap' = ShardRemoveKeyMap(keymap, kh)
        /\ arg' = [arg EXCEPT ![t] = <<kh, DeleteTtl>>]
        /\ pc' = [pc EXCEPT ![t] = "wb_add"]
        /\ UNCHANGED <<now, closed, capacity, nolock, peer, late, slock, rlog, clearing, wlog, hits, misses, stripes, buffer, wbLock,
                       coreLock, policy, batch, evicted, waiting, mpc, mevicted, last, memoVars>>

(***************************************************************************)
(* WriteBuffer.add.                                                        *)
(***************************************************************************)
\* self.nolock or self.mutex.acquire(); buffer[tail] = (key_hash, ttl); tail += 1
WbAdd(t) ==
    /\ pc[t] = "wb_add"
    /\ CanTake(wbLock)
    /\ wbLock' = Acquired(wbLock, t)
    /\ IF Len(buffer) < BufferSize
       THEN /\ buffer' = Append(buffer, arg[t])
            /\ pc' = [pc EXCEPT ![t] = "wb_try"]
       ELSE /\ buffer' = buffer
            /\ pc' = [pc EXCEPT ![t] = "index_error"]
    /\ arg' = [arg EXCEPT ![t] = NoRec]
    /\ wlog' = IF Len(buffer) < BufferSize THEN LogStaged(wlog, arg[t]) ELSE wlog
    /\ late' = (late \/ \E u \in Threads : pc[u] = "fd_remove")
    /\ UNCHANGED <<now, closed, capacity, nolock, peer, slock, rlog, clearing, shardVars, stripes, coreLock, policy, batch,
                   evicted, waiting, ret, maintVars, ops, last, memoVars>>

\* A WbTry that takes the staged records and leaves them in the buffer.
WbTryKeepsBuffer(t) ==
    /\ pc[t] = "wb_try"
    /\ IF coreLock = Free
       THEN /\ coreLock' = t
            /\ batch' = [batch EXCEPT ![t] = buffer]
            /\ pc' = [pc EXCEPT ![t] = "wb_send"]
       ELSE /\ Len(buffer) < BufferSize
            /\ pc' = [pc EXCEPT ![t] = "idle"]
            /\ UNCHANGED <<coreLock, batch>>
    /\ wbLock' = Free
    /\ UNCHANGED <<now, closed, capacity, nolock, peer, late, slock, rlog, clearing, wlog, shardVars, stripes, buffer, policy,
                   arg, evicted, waiting, ret, maintVars, ops, last, memoVars>>

\* A WbTry that waits for the policy lock whatever the number of staged
\* records.
WbTryBlocking(t) ==
    /\ pc[t] = "wb_try"
    /\ coreLock = Free
    /\ coreLock' = t
    /\ batch' = [batch EXCEPT ![t] = buffer]
    /\ buffer' = <<>>
    /\ pc' = [pc EXCEPT ![t] = "wb_send"]
    /\ wbLock' = Free
    /\ UNCHANGED <<now, closed, capacity, nolock, peer, late, slock, rlog, clearing, wlog, shardVars, stripes, policy, arg,
                   evicted, waiting, ret, maintVars, ops, last, memoVars>>

\* A WbTry that gives up on a held policy lock however many records are
\* staged.
WbTryNeverWaits(t) ==
    /\ pc[t] = "wb_try"
    /\ IF CanTake(coreLock)
       THEN /\ coreLock' = Acquired(coreLock, t)
            /\ batch' = [batch EXCEPT ![t] = buffer]
            /\ buffer' = <<>>
            /\ pc' = [pc EXCEPT ![t] = "wb_send"]
       ELSE /\ pc' = [pc EXCEPT ![t] = "idle"]
            /\ UNCHANGED <<coreLock, batch, buffer>>
    /\ wbLock' = Released(wbLock)
    /\ wlog' = IF CanTake(coreLock) THEN wlog ELSE LogBusy(wlog)
    /\ UNCHANGED <<now, closed, capacity, nolock, peer, late, slock, rlog, clearing, shardVars, stripes, policy, arg,
                   evicted, waiting, ret, maintVars, ops, last, memoVars>>

\* A WbTry that takes the staged records without the policy lock, in both
\* modes.
WbTryUnlocked(t) ==
    /\ pc[t] = "wb_try"
    /\ batch' = [batch EXCEPT ![t] = buffer]
    /\ buffer' = <<>>
    /\ pc' = [pc EXCEPT ![t] = "wb_send"]
    /\ wbLock' = Released(wbLock)
    /\ UNCHANGED <<now, closed, capacity, nolock, peer, late, slock, rlog, clearing, wlog, shardVars, stripes, coreLock,
                   policy, arg, evicted, waiting, ret, maintVars, ops, last, memoVars>>

\* self.nolock or core_mutex.acquire(tail >= BufferSize): taken when free,
\* waited for when the buffer is full, given up otherwise.  With the policy
\* lock the thread takes the staged records, resets the tail and releases the
\* buffer's mutex.
WbTry(t) ==
    /\ pc[t] = "wb_try"
    /\ IF CanTake(coreLock)
       THEN /\ coreLock' = Acquired(coreLock, t)
            /\ batch' = [batch EXCEPT ![t] = buffer]
            /\ buffer' = <<>>
            /\ pc' = [pc EXCEPT ![t] = "wb_send"]
       ELSE /\ Len(buffer) < BufferSize
            /\ pc' = [pc EXCEPT ![t] = "idle"]
            /\ UNCHANGED <<coreLock, batch, buffer>>
    /\ wbLock' = Released(wbLock)
    /\ wlog' = IF CanTake(coreLock) THEN wlog ELSE LogBusy(wlog)
    /\ UNCHANGED <<now, closed, capacity, nolock, peer, late, slock, rlog, clearing, shardVars, stripes, policy, arg, evicted, waiting,
                   ret, maintVars, ops, last, memoVars>>

\* evicted = send_to_core(wb); core_mutex.release()
WbSend(t) ==
    /\ pc[t] = "wb_send"
    /\ \E o \in PolicySet(policy, batch[t], now, capacity) :
          /\ policy' = o.pol
          /\ evicted' = [evicted EXCEPT ![t] = o.ev]
          /\ pc' = [pc EXCEPT ![t] = IF o.ev = <<>> THEN "idle" ELSE "wb_remove"]
    /\ batch' = [batch EXCEPT ![t] = <<>>]
    /\ wlog' = LogApplied(wlog, batch[t])
    /\ coreLock' = Released(coreLock)
    /\ UNCHANGED <<now, closed, capacity, nolock, peer, late, slock, rlog, clearing, shardVars, stripes, wbVars, arg, waiting, ret,
                   maintVars, ops, last, memoVars>>

\* WbRemove with the evicted fingerprints left in their shards.
WbRemoveSkipped(t) ==
    /\ pc[t] = "wb_remove"
    /\ evicted' = [evicted EXCEPT ![t] = Tail(@)]
    /\ pc' = [pc EXCEPT ![t] = IF Tail(evicted[t]) = <<>> THEN "idle" ELSE "wb_remove"]
    /\ UNCHANGED <<now, closed, capacity, nolock, peer, late, slock, rlog, clearing, wlog, shardVars, stripes, wbVars, coreLock,
                   policy, arg, batch, waiting, ret, maintVars, ops, last, memoVars>>

\* remove_keys(evicted): Cache._remove_keys, one Shard.remove per fingerprint
WbRemove(t) ==
    /\ pc[t] = "wb_remove"
    /\ ShardFree(ShardOf(Head(evicted[t])))
    /\ smap' = ShardRemoveMap(smap, keymap, Head(evicted[t]))
    /\ keymap' = ShardRemoveKeyMap(keymap, Head(evicted[t]))
    /\ evicted' = [evicted EXCEPT ![t] = Tail(@)]
    /\ pc' = [pc EXCEPT ![t] = IF Tail(evicted[t]) = <<>> THEN "idle" ELSE "wb_remove"]
    /\ UNCHANGED <<now, closed, capacity, nolock, peer, late, slock, rlog, clearing, wlog, hits, misses, stripes, wbVars, coreLock, policy,
                   arg, batch, waiting, ret, maintVars, ops, last, memoVars>>

(***************************************************************************)
(* Cache._force_drain_write: with the policy lock held, buffer[:tail] is   *)
(* read without the buffer's mutex, sent to the policy, the evicted        *)
(* fingerprints are removed, and then the tail is reset.  The reset is not *)
(* under the buffer's mutex either: it races with the "tail += 1" of a     *)
(* thread that entered WriteBuffer.add while the drain ran, which reads    *)
(* tail before the reset and stores tail + 1 after it, so that the reset   *)
(* is lost.                                                                *)
(***************************************************************************)
\* The tails the reset can leave behind
TailReset == IF late THEN {<<>>, buffer} ELSE {<<>>}

ForceDrain(t) ==
    /\ pc[t] = "idle"
    /\ CanTake(coreLock)
    /\ wlog' = LogApplied(wlog, buffer)
    /\ IF buffer = <<>>
       THEN UNCHANGED <<policy, evicted, coreLock, pc>>
       ELSE /\ \E o \in PolicySet(policy, buffer, now, capacity) :
                  /\ policy' = o.pol
                  /\ evicted' = [evicted EXCEPT ![t] = o.ev]
            /\ coreLock' = Acquired(coreLock, t)
            /\ pc' = [pc EXCEPT ![t] = "fd_remove"]
    /\ late' = FALSE
    /\ UNCHANGED <<now, closed, capacity, nolock, peer, slock, rlog, clearing, shardVars, stripes, wbVars, arg, batch, waiting,
                   ret, maintVars, ops, last, memoVars>>

FdRemove(t) ==
    /\ pc[t] = "fd_remove"
    /\ IF evicted[t] = <<>>
       THEN /\ buffer' \in TailReset
            /\ coreLock' = Released(coreLock)
            /\ pc' = [pc EXCEPT ![t] = IF clearing[t] = <<>> THEN "idle" ELSE "clear_core"]
            /\ UNCHANGED <<smap, keymap, evicted>>
       ELSE /\ ShardFree(ShardOf(Head(evicted[t])))
            /\ smap' = ShardRemoveMap(smap, keymap, Head(evicted[t]))
            /\ keymap' = ShardRemoveKeyMap(keymap, Head(evicted[t]))
            /\ evicted' = [evicted EXCEPT ![t] = Tail(@)]
            /\ UNCHANGED <<buffer, coreLock, pc>>
    /\ late' = (late /\ evicted[t] # <<>>)
    /\ UNCHANGED <<now, closed, capacity, nolock, peer, slock, rlog, clearing, wlog, hits, misses, stripes, wbLock, policy, arg, batch,
                   waiting, ret, maintVars, ops, last, memoVars>>

(***************************************************************************)
(* Cache.clear: _force_drain_write, then core.clear() with the policy lock *)
(* held, then Shard.clear on every shard, each under its own lock.  The    *)
(* shards that hold none of the keys are empty throughout and are left out *)
(* of the loop.                                                            *)
(***************************************************************************)
UsedShards == SortedSeq({ShardOf(KeyHash(k)) : k \in Keys})

\* core.clear(): all segments and the timer wheel are emptied
PolicyClear(p) == EmptyPolicy

\* Shard.clear: both maps of shard s are emptied
ShardClearMap(m, s) == [k \in Keys |-> IF ShardOf(KeyHash(k)) = s THEN NoEntry ELSE m[k]]
ShardClearKeyMap(km, s) == [f \in Fps |-> IF ShardOf(f) = s THEN NoKey ELSE km[f]]

Clear(t) ==
    /\ pc[t] = "idle"
    /\ CanTake(coreLock)
    /\ ops' = ops + 1
    /\ clearing' = [clearing EXCEPT ![t] = UsedShards]
    /\ wlog' = LogApplied(wlog, buffer)
    /\ IF buffer = <<>>
       THEN /\ pc' = [pc EXCEPT ![t] = "clear_core"]
            /\ UNCHANGED <<policy, evicted, coreLock>>
       ELSE /\ \E o \in PolicySet(policy, buffer, now, capacity) :
                  /\ policy' = o.pol
                  /\ evicted' = [evicted EXCEPT ![t] = o.ev]
            /\ coreLock' = Acquired(coreLock, t)
            /\ pc' = [pc EXCEPT ![t] = "fd_remove"]
    /\ late' = FALSE
    /\ UNCHANGED <<now, closed, capacity, nolock, peer, slock, rlog, shardVars, stripes, wbVars, arg, batch, waiting,
                   ret, maintVars, last, memoVars>>

ClearCore(t) ==
    /\ pc[t] = "clear_core"
    /\ coreLock = Free
    /\ policy' = PolicyClear(policy)
    /\ pc' = [pc EXCEPT ![t] = "clear_shards"]
    /\ UNCHANGED <<now, closed, capacity, nolock, peer, late, slock, rlog, clearing, wlog, shardVars, stripes, wbVars, coreLock, arg,
                   batch, evicted, waiting, ret, maintVars, ops, last, memoVars>>

\* ClearShard with the shard's maps left as they are.
ClearShardSkipped(t) ==
    /\ pc[t] = "clear_shards"
    /\ clearing' = [clearing EXCEPT ![t] = Tail(@)]
    /\ pc' = [pc EXCEPT ![t] = IF Tail(clearing[t]) = <<>> THEN "idle" ELSE "clear_shards"]
    /\ UNCHANGED <<now, closed, capacity, nolock, peer, late, slock, rlog, wlog, shardVars, stripes, wbVars, coreLock, policy, arg,
                   batch, evicted, waiting, ret, maintVars, ops, last, memoVars>>

ClearShard(t) ==
    /\ pc[t] = "clear_shards"
    /\ ShardFree(Head(clearing[t]))
    /\ smap' = ShardClearMap(smap, Head(clearing[t]))
    /\ keymap' = ShardClearKeyMap(keymap, Head(clearing[t]))
    /\ clearing' = [clearing EXCEPT ![t] = Tail(@)]
    /\ pc' = [pc EXCEPT ![t] = IF Tail(clearing[t]) = <<>> THEN "idle" ELSE "clear_shards"]
    /\ UNCHANGED <<now, closed, capacity, nolock, peer, late, slock, rlog, wlog, hits, misses, stripes, wbVars, coreLock, policy, arg,
                   batch, evicted, waiting, ret, maintVars, ops, last, memoVars>>

ClearStep(t) == ClearCore(t) \/ ClearShard(t)

(***************************************************************************)
(* Shard.set_ttl: the expiration of a stored entry is replaced.            *)
(***************************************************************************)
ShardSetTtlMap(m, k, ttl_ns, t) ==
    IF Present(m, k) THEN [m EXCEPT ![k].expire = ExpireOf(ttl_ns, t)] ELSE m

SetTtl(t, k, ttl_ns) ==
    /\ pc[t] = "idle"
    /\ ShardFree(ShardOf(KeyHash(k)))
    /\ ops' = ops + 1
    /\ smap' = ShardSetTtlMap(smap, k, ttl_ns, now)
    /\ UNCHANGED <<now, closed, capacity, nolock, peer, late, slock, rlog, clearing, wlog, keymap, hits, misses, stripes, wbVars,
                   coreLock, policy, pc, arg, batch, evicted, waiting, ret, maintVars, last,
                   memoVars>>

(***************************************************************************)
(* Cache._access: _ttl_nano, Shard.set_ttl under the shard lock, then the  *)
(* record (kh, ttl_ns) goes to the write buffer whether or not the key was *)
(* found.                                                                  *)
(***************************************************************************)
Access(t, k, ttl) ==
    /\ pc[t] = "idle"
    /\ ops' = ops + 1
    /\ IF TtlRaises(ttl)
       THEN /\ ret' = [ret EXCEPT ![t] = [val |-> NoValue, ok |-> FALSE, err |-> TRUE]]
            /\ UNCHANGED <<smap, pc, arg>>
       ELSE /\ ShardFree(ShardOf(KeyHash(k)))
            /\ smap' = ShardSetTtlMap(smap, k, TtlNano(ttl), now)
            /\ arg' = [arg EXCEPT ![t] = <<KeyHash(k), TtlNano(ttl)>>]
            /\ pc' = [pc EXCEPT ![t] = "wb_add"]
            /\ ret' = ret
    /\ UNCHANGED <<now, closed, capacity, nolock, peer, late, slock, rlog, clearing, wlog, keymap, hits,
                   misses, stripes, wbVars, coreLock, policy, batch, evicted, waiting,
                   maintVars, last, memoVars>>

(***************************************************************************)
(* Cache.stats: under each shard's lock, next() is called on the shard's   *)
(* hit counter and on its miss counter; next() returns the count and moves *)
(* the counter on.  CacheStats divides the hits by the requests.  The      *)
(* shards are read in one step.                                            *)
(***************************************************************************)
RECURSIVE SumTo(_, _)
SumTo(f, n) == IF n < 0 THEN 0 ELSE f[n] + SumTo(f, n - 1)

\* the sum of a counter over the shards
Total(f) == SumTo(f, ShardCount - 1)

\* A CacheStats whose request_count is the number of hits.
CacheStatsHitsOnly(total, hit) ==
    [val |-> NoValue, ok |-> FALSE, err |-> total = 0,
     request_count |-> hit, hit_count |-> hit, miss_count |-> 0]

\* CacheStats(total, hit); err: hit_count / request_count raised
\* ZeroDivisionError and no object was made
CacheStats(total, hit) ==
    [val |-> NoValue, ok |-> FALSE, err |-> total = 0,
     request_count |-> total, hit_count |-> hit, miss_count |-> total - hit]

Stats(t) ==
    /\ pc[t] = "idle"
    /\ \A s \in ShardIds : ShardFree(s)
    /\ hits' = [s \in ShardIds |-> hits[s] + 1]
    /\ misses' = [s \in ShardIds |-> misses[s] + 1]
    /\ ret' = [ret EXCEPT ![t] = CacheStats(Total(hits) + Total(misses),
                                           Total(hits))]
    /\ UNCHANGED <<now, closed, capacity, nolock, peer, late, slock, rlog, clearing, wlog, smap, keymap, stripes, wbVars,
                   coreLock, policy, pc, arg, batch, evicted, waiting, maintVars, ops, last,
                   memoVars>>

(***************************************************************************)
(* Cache.maintenance: one round of the loop.                               *)
(***************************************************************************)
MaintAcquire ==
    /\ mpc = "sleep"
    /\ coreLock = Free
    /\ coreLock' = Maint
    /\ mpc' = "locked"
    /\ UNCHANGED <<now, closed, capacity, nolock, peer, late, slock, rlog, clearing, wlog, shardVars, stripes, wbVars, policy, pc, arg, batch,
                   evicted, waiting, ret, mevicted, ops, last, memoVars>>

\* A maintenance round that never looks at _closed.
MaintAdvanceIgnoresClosed ==
    /\ mpc = "locked"
    /\ coreLock' = Free
    /\ mevicted' = PolicyAdvanceKeys(policy, now)
    /\ policy' = PolicyAdvance(policy, now)
    /\ mpc' = IF PolicyAdvanceKeys(policy, now) = <<>> THEN "sleep" ELSE "remove"
    /\ UNCHANGED <<now, closed, capacity, nolock, peer, late, slock, rlog, clearing, wlog, shardVars, stripes, wbVars, pc, arg,
                   batch, evicted, waiting, ret, ops, last, memoVars>>

\* A maintenance round that, finding the cache closed, advances the policy
\* a last time before it returns.
MaintAdvanceThenStop ==
    /\ mpc = "locked"
    /\ coreLock' = Free
    /\ mevicted' = IF closed THEN <<>> ELSE PolicyAdvanceKeys(policy, now)
    /\ policy' = PolicyAdvance(policy, now)
    /\ mpc' = IF closed THEN "done"
              ELSE IF PolicyAdvanceKeys(policy, now) = <<>> THEN "sleep" ELSE "remove"
    /\ UNCHANGED <<now, closed, capacity, nolock, peer, late, slock, rlog, clearing, wlog, shardVars, stripes, wbVars, pc, arg,
                   batch, evicted, waiting, ret, ops, last, memoVars>>

MaintAdvance ==
    /\ mpc = "locked"
    /\ coreLock' = Free
    /\ IF closed
       THEN /\ mpc' = "done"
            /\ UNCHANGED <<policy, mevicted>>
       ELSE /\ mevicted' = PolicyAdvanceKeys(policy, now)
            /\ policy' = PolicyAdvance(policy, now)
            /\ mpc' = IF PolicyAdvanceKeys(policy, now) = <<>> THEN "sleep" ELSE "remove"
    /\ UNCHANGED <<now, closed, capacity, nolock, peer, late, slock, rlog, clearing, wlog, shardVars, stripes, wbVars, pc, arg, batch, evicted,
                   waiting, ret, ops, last, memoVars>>

MaintRemove ==
    /\ mpc = "remove"
    /\ ShardFree(ShardOf(Head(mevicted)))
    /\ smap' = ShardRemoveExpiredMap(smap, keymap, Head(mevicted))
    /\ keymap' = ShardRemoveExpiredKeyMap(smap, keymap, Head(mevicted))
    /\ mevicted' = Tail(mevicted)
    /\ mpc' = IF Tail(mevicted) = <<>> THEN "sleep" ELSE "remove"
    /\ UNCHANGED <<now, closed, capacity, nolock, peer, late, slock, rlog, clearing, wlog, hits, misses, stripes, wbVars, coreLock, policy, pc,
                   arg, batch, evicted, waiting, ret, ops, last, memoVars>>

\* Cache.close: _closed is set with the policy lock held
Close(t) ==
    /\ pc[t] = "idle"
    /\ coreLock = Free
    /\ closed' = TRUE
    /\ ops' = ops + 1
    /\ UNCHANGED <<now, capacity, nolock, peer, late, slock, rlog, clearing, wlog, shardVars, stripes, wbVars, coreLock, policy,
                   pc, arg, batch, evicted, waiting, ret, maintVars, last, memoVars>>

\* The monotonic clock advances.
Tick ==
    /\ now < MaxTime
    /\ now' = now + 1
    /\ UNCHANGED <<closed, capacity, nolock, peer, late, slock, rlog, clearing, wlog, shardVars, stripes, wbVars, coreLock, policy, pc, arg,
                   batch, evicted, waiting, ret, maintVars, ops, last, memoVars>>

WbStep(t) == WbAdd(t) \/ WbTry(t) \/ WbSend(t) \/ WbRemove(t)
MaintStep == MaintAcquire \/ MaintAdvance \/ MaintRemove
AllIdle == \A t \in Threads : pc[t] = "idle"

(***************************************************************************)
(* Cache._get_or_compute, locking mode: the synchronous memoizer.          *)
(* A thread is at "m_claim" after its Shard.get missed, at "m_produce"     *)
(* while it runs the producer, at "m_store" and "m_set" after the producer *)
(* returned, and at "m_wait" in ve.event.wait().                           *)
(***************************************************************************)
\* StripedBuffer.add of a sample; the thread that fills the stripe goes on to
\* _drain_read at the label drain
StripedAddTo(t, kh, i, drain) ==
    LET bs == Len(stripes[i])
    IN  IF bs < StripeSize
        THEN /\ rlog' = Appended(rlog)
             /\ IF bs = StripeSize - 1
                THEN /\ waiting' = [waiting EXCEPT ![t] = Append(stripes[i], kh)]
                     /\ stripes' = [stripes EXCEPT ![i] = <<>>]
                     /\ pc' = [pc EXCEPT ![t] = drain]
                ELSE /\ stripes' = [stripes EXCEPT ![i] = Append(@, kh)]
                     /\ pc' = [pc EXCEPT ![t] = "idle"]
                     /\ UNCHANGED waiting
        ELSE /\ pc' = [pc EXCEPT ![t] = "idle"]
             /\ UNCHANGED <<stripes, waiting, rlog>>

StripedAdd(t, kh, i) == StripedAddTo(t, kh, i, "rb_drain")

\* shard.get(key, kh): a hit returns the value; a miss creates the EventData
MemoCall(t, k, i) ==
    LET kh == KeyHash(k)
        ok == ShardGetOk(smap, k, now)
    IN  /\ pc[t] = "idle"
        /\ ShardFree(ShardOf(kh))
        /\ ops' = ops + 1
        /\ mkey' = [mkey EXCEPT ![t] = k]
        /\ smap' = ShardGetMap(smap, k, now)
        /\ keymap' = ShardGetKeyMap(smap, keymap, k, kh, now)
        /\ hits' = IF ok THEN [hits EXCEPT ![ShardOf(kh)] = @ + 1] ELSE hits
        /\ misses' = IF ok THEN misses ELSE [misses EXCEPT ![ShardOf(kh)] = @ + 1]
        /\ IF ok
           THEN /\ ret' = [ret EXCEPT ![t] = [val |-> ShardGetValue(smap, k, now),
                                              ok |-> TRUE, err |-> FALSE]]
                /\ StripedAdd(t, kh, i)
                /\ UNCHANGED <<mid, mve>>
           ELSE /\ ret' = [ret EXCEPT ![t] = NoRet]
                /\ mid' = [mid EXCEPT ![t] = ops + 1]
                /\ mve' = [mve EXCEPT ![t] = 0]
                /\ pc' = [pc EXCEPT ![t] = "m_claim"]
                /\ UNCHANGED <<stripes, waiting, rlog>>
        /\ UNCHANGED <<now, closed, capacity, nolock, peer, late, slock, clearing, wlog, wbVars, coreLock, policy, arg, batch, evicted,
                       maintVars, last, mttl, events, evs, pcalls,
                   asyncVars>>

\* A claim that ignores the event registered for the key.
MemoClaimUnregistered(t, i) ==
    /\ pc[t] = "m_claim"
    /\ events' = [events EXCEPT ![mkey[t]] = mid[t]]
    /\ mve' = [mve EXCEPT ![t] = mid[t]]
    /\ pc' = [pc EXCEPT ![t] = "m_produce"]
    /\ UNCHANGED <<now, closed, capacity, nolock, peer, late, slock, rlog, clearing, wlog, shardVars, stripes, wbVars, coreLock, policy, arg,
                   batch, evicted, waiting, ret, maintVars, ops, last, mttl, evs, mid, mkey,
                   pcalls,
                   asyncVars>>

\* with shard._mutex: _get_nolock(key, kh), then on a hit read_buffer.add(kh)
\* with the mutex still held, else _events.setdefault(key, event)
MemoClaim(t, i) ==
    LET k == mkey[t]
        kh == KeyHash(k)
        ok == ShardGetOk(smap, k, now)
    IN  /\ pc[t] = "m_claim"
        /\ ShardFree(ShardOf(kh))
        /\ smap' = ShardGetMap(smap, k, now)
        /\ keymap' = ShardGetKeyMap(smap, keymap, k, kh, now)
        /\ IF ok
           THEN /\ ret' = [ret EXCEPT ![t] = [val |-> ShardGetValue(smap, k, now),
                                              ok |-> TRUE, err |-> FALSE]]
                /\ StripedAddTo(t, kh, i, "m_drain")
                /\ UNCHANGED <<events, mve>>
           ELSE /\ IF events[k] = 0
                   THEN /\ events' = [events EXCEPT ![k] = mid[t]]
                        /\ mve' = [mve EXCEPT ![t] = mid[t]]
                        /\ pc' = [pc EXCEPT ![t] = "m_produce"]
                   ELSE /\ mve' = [mve EXCEPT ![t] = events[k]]
                        /\ pc' = [pc EXCEPT ![t] = "m_wait"]
                        /\ UNCHANGED events
                /\ UNCHANGED <<ret, stripes, waiting, rlog>>
        /\ UNCHANGED <<now, closed, capacity, nolock, peer, late, slock, clearing, wlog, hits, misses, wbVars, coreLock, policy, arg,
                       batch, evicted, maintVars, ops, last, mttl, evs, mid, mkey, pcalls,
                   asyncVars>>

\* result_sync = fn(); event.data = result_sync; ttl_ns = self._ttl_nano(self._ttl)
\* An exception of fn or of _ttl_nano leaves the method.
MemoProduce(t, fails) ==
    /\ pc[t] = "m_produce"
    /\ pcalls' = [pcalls EXCEPT ![mkey[t]] = @ + 1]
    /\ evs' = IF fails THEN evs
              ELSE [evs EXCEPT ![mid[t]].data = ProducerValue(mkey[t])]
    /\ IF fails \/ TtlRaises(mttl)
       THEN /\ ret' = [ret EXCEPT ![t] = [val |-> NoValue, ok |-> FALSE, err |-> TRUE]]
            /\ pc' = [pc EXCEPT ![t] = "idle"]
       ELSE /\ pc' = [pc EXCEPT ![t] = "m_store"]
            /\ UNCHANGED ret
    /\ UNCHANGED <<now, closed, capacity, nolock, peer, late, slock, rlog, clearing, wlog, shardVars, stripes, wbVars, coreLock, policy, arg,
                   batch, evicted, waiting, maintVars, ops, last, mttl, events, mid, mkey,
                   mve,
                   asyncVars>>

\* A claimant that pops its event without storing the result.
MemoStoreSkipped(t) ==
    /\ pc[t] = "m_store"
    /\ events' = [events EXCEPT ![mkey[t]] = 0]
    /\ pc' = [pc EXCEPT ![t] = "m_set"]
    /\ UNCHANGED <<now, closed, capacity, nolock, peer, late, slock, rlog, clearing, wlog, shardVars, stripes, wbVars, coreLock, policy, arg,
                   batch, evicted, waiting, ret, maintVars, ops, last, mttl, evs, mid, mkey,
                   mve, pcalls,
                   asyncVars>>

\* with shard._mutex: shard._set_nolock(...); self._events.pop(key, None)
MemoStore(t) ==
    LET k == mkey[t]
    IN  /\ pc[t] = "m_store"
        /\ ShardFree(ShardOf(KeyHash(k)))
        /\ smap' = ShardSetMap(smap, keymap, k, KeyHash(k), evs[mid[t]].data,
                               TtlNano(mttl), now)
        /\ keymap' = ShardSetKeyMap(keymap, k, KeyHash(k))
        /\ events' = [events EXCEPT ![k] = 0]
        /\ pc' = [pc EXCEPT ![t] = "m_set"]
        /\ UNCHANGED <<now, closed, capacity, nolock, peer, late, slock, rlog, clearing, wlog, hits, misses, stripes, wbVars, coreLock,
                       policy, arg, batch, evicted, waiting, ret, maintVars, ops, last,
                       mttl, evs, mid, mkey, mve, pcalls,
                   asyncVars>>

\* event.event.set(), then self._write_buffer.add(kh, ttl_ns) and the return
\* of ve.data
MemoSetEvent(t) ==
    /\ pc[t] = "m_set"
    /\ evs' = [evs EXCEPT ![mid[t]].set = TRUE]
    /\ arg' = [arg EXCEPT ![t] = <<KeyHash(mkey[t]), TtlNano(mttl)>>]
    /\ ret' = [ret EXCEPT ![t] = [val |-> evs[mve[t]].data, ok |-> TRUE, err |-> FALSE]]
    /\ pc' = [pc EXCEPT ![t] = "wb_add"]
    /\ UNCHANGED <<now, closed, capacity, nolock, peer, late, slock, rlog, clearing, wlog, shardVars, stripes, wbVars, coreLock, policy,
                   batch, evicted, waiting, maintVars, ops, last, mttl, events, mid, mkey,
                   mve, pcalls,
                   asyncVars>>

\* ve.event.wait() returns once the event is set; the waiter returns ve.data
MemoWait(t) ==
    /\ pc[t] = "m_wait"
    /\ evs[mve[t]].set
    /\ ret' = [ret EXCEPT ![t] = [val |-> evs[mve[t]].data, ok |-> TRUE, err |-> FALSE]]
    /\ pc' = [pc EXCEPT ![t] = "idle"]
    /\ UNCHANGED <<now, closed, capacity, nolock, peer, late, slock, rlog, clearing, wlog, shardVars, stripes, wbVars, coreLock, policy, arg,
                   batch, evicted, waiting, maintVars, ops, last, memoVars>>

(***************************************************************************)
(* The asynchronous memoizer: Wrapper.fetch and CachedAwaitable.  The      *)
(* tasks run on one event loop thread, which runs one task at a time up to *)
(* the task's next suspension; the values the cache stores are the         *)
(* awaitables, and the exception a producer raises is named by the         *)
(* awaitable that ran it.                                                  *)
(***************************************************************************)
Loop == 1            \* the event loop thread

NewAw == 1 + Cardinality({x \in AwIds : aws[x].key # NoKey})

\* fetch: result, ok = _cache.get(key); a hit returns the cached awaitable.
\* The tasks are numbered in the order in which they call fetch.
AFetchGet(j, k, i) ==
    LET kh == KeyHash(k)
        ok == ShardGetOk(smap, k, now)
    IN  /\ pc[Loop] = "idle"
        /\ cur = 0
        /\ tasks[j].st = "new"
        /\ \A j2 \in TaskIds : j2 < j => tasks[j2].st # "new"
        /\ smap' = ShardGetMap(smap, k, now)
        /\ keymap' = ShardGetKeyMap(smap, keymap, k, kh, now)
        /\ hits' = IF ok THEN [hits EXCEPT ![ShardOf(kh)] = @ + 1] ELSE hits
        /\ misses' = IF ok THEN misses ELSE [misses EXCEPT ![ShardOf(kh)] = @ + 1]
        /\ IF ok
           THEN /\ tasks' = [tasks EXCEPT ![j].st = "fetched", ![j].key = k,
                                          ![j].aw = ShardGetValue(smap, k, now)]
                /\ StripedAdd(Loop, kh, i)
                /\ UNCHANGED cur
           ELSE /\ tasks' = [tasks EXCEPT ![j].st = "fetching", ![j].key = k]
                /\ cur' = j
                /\ UNCHANGED <<stripes, waiting, pc, rlog>>
        /\ UNCHANGED <<now, closed, capacity, nolock, peer, late, slock, clearing, wlog, wbVars, coreLock, policy, arg, batch, evicted,
                       ret, maintVars, ops, last, mttl, events, evs, mid, mkey, mve, pcalls,
                       aws>>

\* fetch after a miss: result = CachedAwaitable(_func(...), on_error);
\* _cache.set(key, result, _ttl)
AFetchSet ==
    LET j == cur
        k == tasks[j].key
        x == NewAw
    IN  /\ cur # 0
        /\ pc[Loop] = "idle"
        /\ cur' = 0
        /\ IF TtlRaises(mttl)
           THEN /\ tasks' = [tasks EXCEPT ![j].st = "done", ![j].exc = -1, ![j].via = "set"]
                /\ UNCHANGED <<smap, keymap, aws, arg, pc>>
           ELSE /\ aws' = [aws EXCEPT ![x] = [NoAw EXCEPT !.key = k,
                                                         !.exp = ExpireOf(TtlNano(mttl), now)]]
                /\ smap' = ShardSetMap(smap, keymap, k, KeyHash(k), x, TtlNano(mttl), now)
                /\ keymap' = ShardSetKeyMap(keymap, k, KeyHash(k))
                /\ arg' = [arg EXCEPT ![Loop] = <<KeyHash(k), TtlNano(mttl)>>]
                /\ pc' = [pc EXCEPT ![Loop] = "wb_add"]
                /\ tasks' = [tasks EXCEPT ![j].st = "fetched", ![j].aw = x]
        /\ UNCHANGED <<now, closed, capacity, nolock, peer, late, slock, rlog, clearing, wlog, hits, misses, stripes, wbVars, coreLock, policy,
                       batch, evicted, waiting, ret, maintVars, ops, last, mttl, events, evs,
                       mid, mkey, mve, pcalls>>

\* CachedAwaitable.__await__ up to its first suspension: a memoized result
\* or exception is delivered; the first awaiter creates the future and
\* starts the producer; the others wait on the future.
AAwait(j) ==
    LET x == tasks[j].aw
    IN  /\ pc[Loop] = "idle"
        /\ cur = 0
        /\ tasks[j].st = "fetched"
        /\ IF aws[x].result # NoValue
           THEN /\ tasks' = [tasks EXCEPT ![j].st = "done", ![j].val = aws[x].result,
                                          ![j].via = "memo"]
                /\ UNCHANGED aws
           ELSE IF aws[x].exc # 0
           THEN /\ tasks' = [tasks EXCEPT ![j].st = "done", ![j].exc = aws[x].exc,
                                          ![j].via = "memo"]
                /\ UNCHANGED aws
           ELSE IF ~aws[x].fut
           THEN /\ aws' = [aws EXCEPT ![x].fut = TRUE, ![x].runs = @ + 1]
                /\ tasks' = [tasks EXCEPT ![j].st = "producing"]
           ELSE /\ tasks' = [tasks EXCEPT ![j].st = "waiting"]
                /\ UNCHANGED aws
        /\ UNCHANGED <<now, closed, capacity, nolock, peer, late, slock, rlog, clearing, wlog, shardVars, stripes, wbVars, coreLock, policy,
                       pc, arg, batch, evicted, waiting, ret, maintVars, ops, last, mttl,
                       events, evs, mid, mkey, mve, pcalls, cur>>

\* The producer coroutine finishes.  It returns: the result is memoized and
\* the future resolved.  It raises (or is cancelled): the exception is
\* memoized, the future gets it, and on_error deletes the key from the cache.
AProduceDone(j, fails) ==
    LET x == tasks[j].aw
        k == aws[x].key
        kh == KeyHash(k)
    IN  /\ pc[Loop] = "idle"
        /\ cur = 0
        /\ tasks[j].st = "producing"
        /\ IF fails
           THEN /\ aws' = [aws EXCEPT ![x].exc = x, ![x].fut = FALSE]
                /\ tasks' = [tasks EXCEPT ![j].st = "done", ![j].exc = x,
                                          ![j].via = "producer"]
                /\ smap' = ShardRemoveMap(smap, keymap, kh)
                /\ keymap' = ShardRemoveKeyMap(keymap, kh)
                /\ arg' = [arg EXCEPT ![Loop] = <<kh, DeleteTtl>>]
                /\ pc' = [pc EXCEPT ![Loop] = "wb_add"]
           ELSE /\ aws' = [aws EXCEPT ![x].result = ProducerValue(k), ![x].fut = FALSE]
                /\ tasks' = [tasks EXCEPT ![j].st = "done", ![j].val = ProducerValue(k),
                                          ![j].via = "producer"]
                /\ UNCHANGED <<smap, keymap, arg, pc>>
        /\ UNCHANGED <<now, closed, capacity, nolock, peer, late, slock, rlog, clearing, wlog, hits, misses, stripes, wbVars, coreLock, policy,
                       batch, evicted, waiting, ret, maintVars, ops, last, mttl, events, evs,
                       mid, mkey, mve, pcalls, cur>>

\* A waiter woken with an exception of its own.
AWakeOwnException(j) ==
    LET x == tasks[j].aw
    IN  /\ pc[Loop] = "idle"
        /\ cur = 0
        /\ tasks[j].st = "waiting"
        /\ ~aws[x].fut
        /\ tasks' = [tasks EXCEPT ![j].st = "done", ![j].via = "future",
                                  ![j].exc = IF aws[x].exc # 0 THEN -1 ELSE 0,
                                  ![j].val = aws[x].result]
        /\ UNCHANGED <<now, closed, capacity, nolock, peer, late, slock, rlog, clearing, wlog, shardVars, stripes, wbVars, coreLock, policy,
                       pc, arg, batch, evicted, waiting, ret, maintVars, ops, last, mttl,
                       events, evs, mid, mkey, mve, pcalls, aws, cur>>

\* yield from self.future.__await__() resumes: the future's exception is
\* raised in the waiter, or the waiter returns self.result
AWake(j) ==
    LET x == tasks[j].aw
    IN  /\ pc[Loop] = "idle"
        /\ cur = 0
        /\ tasks[j].st = "waiting"
        /\ ~aws[x].fut
        /\ tasks' = [tasks EXCEPT ![j].st = "done", ![j].via = "future",
                                  ![j].exc = aws[x].exc,
                                  ![j].val = aws[x].result]
        /\ UNCHANGED <<now, closed, capacity, nolock, peer, late, slock, rlog, clearing, wlog, shardVars, stripes, wbVars, coreLock, policy,
                       pc, arg, batch, evicted, waiting, ret, maintVars, ops, last, mttl,
                       events, evs, mid, mkey, mve, pcalls, aws, cur>>

(***************************************************************************)
(* Workload: set calls, with and without a TTL, from two threads; forced   *)
(* drains once the set calls have returned, and no set call while one      *)
(* runs; the maintenance task.                                             *)
(***************************************************************************)
Draining == \E t \in Threads : pc[t] = "fd_remove"

SetKeys == {"a", "b", "c"}
SetTtls == {NoTtl, <<1>>}

SetsNext ==
    \/ \E t \in CacheThreads, k \in SetKeys, ttl \in SetTtls :
           ops < MaxSets /\ ~Draining /\ Set(t, k, 1, ttl)
    \/ \E t \in CacheThreads : AllIdle /\ ForceDrain(t)
    \/ \E t \in CacheThreads : FdRemove(t)
    \/ \E t \in CacheThreads : WbStep(t)
    \/ MaintStep
    \/ Tick

SetsInit == CacheInit(1 .. MaxCap) /\ MemoInit({NoTtl})

SpecSets == SetsInit /\ [][SetsNext]_vars

(***************************************************************************)
(* C1: size bound.                                                         *)
(***************************************************************************)
\* The set calls have returned and the write buffer holds no staged record.
SetsDrained == (\A t \in CacheThreads : pc[t] = "idle") /\ buffer = <<>>

\* C1 as stated: once the set calls have returned and the write buffer has
\* been drained, len(cache) is at most the capacity.
C1_SizeBoundOriginal == SetsDrained => CacheLen <= capacity

\* C1, amended: once the set calls have returned, the write buffer has been
\* drained and the maintenance task is not between advance() and the removal
\* of the fingerprints it returned, len(cache) is at most the capacity.
C1_SizeBound == (SetsDrained /\ mevicted = <<>>) => CacheLen <= capacity

\* More fingerprints were set than the cache holds, the policy has evicted,
\* and the state is drained with the cache exactly full.
C1_Witness ==
    /\ SetsDrained
    /\ mevicted = <<>>
    /\ ops > capacity
    /\ Cardinality({k \in Keys : last[k] # NoValue}) > capacity
    /\ CacheLen = capacity

(***************************************************************************)
(* Workload: one thread issues set calls without TTL while another issues  *)
(* get calls and forced drains at any time; the maintenance task runs.     *)
(***************************************************************************)
MaxRtOps == 3        \* get and set calls issued in one run of this workload

RtInit == CacheInit(1 .. (MaxCap + 1)) /\ MemoInit({NoTtl})

Setter == 1          \* the thread that issues the set calls
Getter == 2          \* the thread that issues the get calls and forced drains

RtNext ==
    \/ \E k \in Keys, v \in Values : ops < MaxRtOps /\ Set(Setter, k, v, NoTtl)
    \/ \E k \in Keys, i \in RbIndexes : ops < MaxRtOps /\ Get(Getter, k, i)
    \/ ForceDrain(Getter)
    \/ FdRemove(Getter)
    \/ WbStep(Setter)
    \/ MaintAcquire
    \/ MaintAdvance

SpecRoundTrip == RtInit /\ [][RtNext]_vars

(***************************************************************************)
(* C2: set/get round trip without eviction.                                *)
(***************************************************************************)
KeysSet == {k \in Keys : last[k] # NoValue}
FpsSet == {KeyHash(k) : k \in KeysSet}
WithinCapacity == Cardinality(FpsSet) <= capacity
NoCollision == \A k1, k2 \in KeysSet : k1 # k2 => KeyHash(k1) # KeyHash(k2)

\* A get of a key that was set returns the value of its latest set.
GetsReturnLatest ==
    \A t \in CacheThreads, k \in KeysSet :
        Get(t, k, 0) => ret'[t] = [val |-> last[k], ok |-> TRUE, err |-> FALSE]

\* Every key that was set is in the shard maps, with its latest value.
AllKept == \A k \in KeysSet : smap[k].value = last[k] /\ keymap[KeyHash(k)] = k

\* C2 as stated: while the number of distinct fingerprints set does not
\* exceed the capacity, every get of a key that was set returns
\* (latest value, true), and no entry is evicted.
C2_RoundTripOriginal ==
    [][/\ WithinCapacity => GetsReturnLatest
       /\ WithinCapacity' => AllKept']_vars

\* C2, amended: the same, for set calls whose keys have pairwise distinct
\* fingerprints.
C2_RoundTrip ==
    [][/\ (WithinCapacity /\ NoCollision) => GetsReturnLatest
       /\ (WithinCapacity /\ NoCollision)' => AllKept']_vars

\* A key was set twice, to different values, the write buffer has been
\* drained into the policy, and a get returned the second value.
C2_Witness ==
    \E t \in CacheThreads, k \in Keys :
        /\ WithinCapacity /\ NoCollision
        /\ pc[t] = "idle"
        /\ ops = 3
        /\ buffer = <<>>
        /\ KeyHash(k) \in PolicyFps(policy)
        /\ last[k] = 2
        /\ ret[t] = [val |-> 2, ok |-> TRUE, err |-> FALSE]
        /\ hits[ShardOf(KeyHash(k))] = 1

(***************************************************************************)
(* Workload: two threads call a function memoized without TTL; the         *)
(* producer returns.                                                       *)
(***************************************************************************)
MemoKeys == {"a", "c", "d"}

SyncNext ==
    \/ \E t \in CacheThreads, k \in MemoKeys, i \in RbIndexes :
           ops < MaxCalls /\ MemoCall(t, k, i)
    \/ \E t \in CacheThreads, i \in RbIndexes : MemoClaim(t, i)
    \/ \E t \in CacheThreads : MemoProduce(t, FALSE)
    \/ \E t \in CacheThreads : MemoStore(t)
    \/ \E t \in CacheThreads : MemoSetEvent(t)
    \/ \E t \in CacheThreads : MemoWait(t)
    \/ \E t \in CacheThreads : WbStep(t)
    \/ MaintAcquire
    \/ MaintAdvance

SyncInit == CacheInit(1 .. (MaxCap + 1)) /\ MemoInit({NoTtl})

SpecSync == SyncInit /\ [][SyncNext]_vars

(***************************************************************************)
(* C3: at most one producer per key in the synchronous memoizer.           *)
(***************************************************************************)
Producing(k) == {t \in Threads : pc[t] = "m_produce" /\ mkey[t] = k}
WaitingOn(k) == {t \in Threads : pc[t] = "m_wait" /\ mkey[t] = k}

\* C3: at no instant are two threads running the producer of one key; the
\* thread that runs it holds the event registered for the key, and a caller
\* that found the key absent while that event was registered waits on it
\* instead of producing.
C3_OneProducer ==
    \A k \in Keys :
        /\ Cardinality(Producing(k)) <= 1
        /\ \A t \in Producing(k) : events[k] = mid[t] /\ mve[t] = mid[t]
        /\ \A t \in WaitingOn(k) :
               /\ mve[t] # mid[t]
               /\ (events[k] = mve[t] \/ evs[mve[t]].data = ProducerValue(k))

\* One thread runs the producer of a key while another waits on its event.
C3_Witness ==
    \E k \in Keys, t1, t2 \in Threads :
        /\ t1 \in Producing(k)
        /\ t2 \in WaitingOn(k)
        /\ mve[t2] = mid[t1]
        /\ pcalls[k] = 0

(***************************************************************************)
(* C4: single-flight result.                                               *)
(***************************************************************************)
CalledKeys == {k \in Keys : pcalls[k] > 0 \/ \E t \in Threads : mkey[t] = k}
Returned(t) == pc[t] = "idle" /\ mkey[t] # NoKey

OncePerKey ==
    /\ \A k \in Keys : pcalls[k] <= 1
    /\ \A t \in Threads :
           Returned(t) =>
               /\ pcalls[mkey[t]] = 1
               /\ ret[t] = [val |-> ProducerValue(mkey[t]), ok |-> TRUE, err |-> FALSE]

FailNext ==
    \/ \E t \in CacheThreads, k \in MemoKeys, i \in RbIndexes :
           ops < MaxCalls /\ MemoCall(t, k, i)
    \/ \E t \in CacheThreads, i \in RbIndexes : MemoClaim(t, i)
    \/ \E t \in CacheThreads, fails \in BOOLEAN : MemoProduce(t, fails)
    \/ \E t \in CacheThreads : MemoStore(t)
    \/ \E t \in CacheThreads : MemoSetEvent(t)
    \/ \E t \in CacheThreads : MemoWait(t)
    \/ \E t \in CacheThreads : WbStep(t)
    \/ MaintAcquire
    \/ MaintAdvance

SpecSyncFail == SyncInit /\ [][FailNext]_vars

\* The call of thread t has left _get_or_compute with the producer's exception.
Raised(t) == pc[t] = "idle" /\ mkey[t] # NoKey /\ ret[t].err

\* C5: when the claimant's producer raises, every waiter on its event is
\* woken: no thread is left in event.wait() on the event of a claimant that
\* has re-raised.
C5_FailureReachesWaiters ==
    \A w \in Threads :
        pc[w] = "m_wait" =>
            ~ \E c \in Threads : c # w /\ Raised(c) /\ mid[c] = mve[w] /\ ~evs[mve[w]].set

\* C6: after a producer invocation for a key has raised, no in-flight event
\* for the key remains registered.
C6_FailureNotSticky ==
    \A c \in Threads : Raised(c) => events[mkey[c]] # mid[c]

(***************************************************************************)
(* Workload: tasks call and await an async function memoized with or       *)
(* without a TTL; the producer returns or raises; the clock advances and   *)
(* the maintenance task runs.                                              *)
(***************************************************************************)
AKeys == {"a", "c"}
AsyncTtls == {NoTtl, <<1>>}

AsyncNext ==
    \/ \E j \in TaskIds, k \in AKeys, i \in RbIndexes : AFetchGet(j, k, i)
    \/ AFetchSet
    \/ \E j \in TaskIds : AAwait(j)
    \/ \E j \in TaskIds, fails \in BOOLEAN : AProduceDone(j, fails)
    \/ \E j \in TaskIds : AWake(j)
    \/ WbStep(Loop)
    \/ MaintStep
    \/ Tick

AsyncInit == CacheInit(1 .. (MaxCap + 1)) /\ MemoInit(AsyncTtls)

SpecAsync == AsyncInit /\ [][AsyncNext]_vars

InFlight(k) == {x \in AwIds : aws[x].key = k /\ aws[x].fut}

\* C7: at most one producer coroutine per key is in flight at a time, also
\* when a TTL is configured or the cached awaitable is evicted while its
\* producer runs.
C7_OneProducerAsync == \A k \in Keys : Cardinality(InFlight(k)) <= 1

(***************************************************************************)
(* Workload: tasks call and await an async function memoized without TTL;  *)
(* the producer returns or raises.                                         *)
(***************************************************************************)
HerdNext ==
    \/ \E j \in TaskIds, k \in AKeys, i \in RbIndexes : AFetchGet(j, k, i)
    \/ AFetchSet
    \/ \E j \in TaskIds : AAwait(j)
    \/ \E j \in TaskIds, fails \in BOOLEAN : AProduceDone(j, fails)
    \/ \E j \in TaskIds : AWake(j)
    \/ WbStep(Loop)
    \/ MaintAcquire
    \/ MaintAdvance

HerdInit == CacheInit(1 .. (MaxCap + 1)) /\ MemoInit({NoTtl})

SpecHerd == HerdInit /\ [][HerdNext]_vars

Awaited(x) == {j \in TaskIds : tasks[j].st = "done" /\ tasks[j].aw = x}

\* C8: when the producer of a cached awaitable raises, it has run once,
\* every awaiter of that awaitable receives the exception it raised and no
\* value, whether it started the producer, waited on the future or awaited
\* later, and the producer does not run again.
C8_HerdFailure ==
    \A x \in AwIds :
        /\ aws[x].runs <= 1
        /\ aws[x].exc # 0 =>
               /\ aws[x].runs = 1
               /\ ~aws[x].fut
               /\ \A j \in Awaited(x) : tasks[j].exc = x /\ tasks[j].val = NoValue

\* The producer of an awaitable raised; the task that ran it, a task that
\* waited on its future and a task that awaited it afterwards are done.
C8_Witness ==
    \E x \in AwIds :
        /\ aws[x].exc = x
        /\ \E j1, j2, j3 \in Awaited(x) :
               /\ tasks[j1].via = "producer"
               /\ tasks[j2].via = "future"
               /\ tasks[j3].via = "memo"

\* C9: a successful result stays cached until its TTL passes: while the
\* cache is within capacity, the awaitable of a producer that returned is the
\* entry of its key for as long as its expiration lies ahead.
C9_SuccessStaysCached ==
    Cardinality(AKeys) <= capacity =>
        \A x \in AwIds :
            (aws[x].result # NoValue /\ (aws[x].exp = 0 \/ now < aws[x].exp)) =>
                smap[aws[x].key] = Entry(x, aws[x].exp)

(***************************************************************************)
(* Workload: one thread issues set calls with a TTL, each storing its own  *)
(* deadline as the value, while another issues get calls; the clock        *)
(* advances and the maintenance task runs.                                 *)
(***************************************************************************)
MaxTtlOps == 3       \* get and set calls issued in one run of this workload
TtlKeys == {"a", "c"}
Ttls == {1, 2}

TtlNext ==
    \/ \E k \in TtlKeys, ttl \in Ttls :
           ops < MaxTtlOps /\ Set(Setter, k, now + ttl, <<ttl>>)
    \/ \E k \in TtlKeys, i \in RbIndexes : ops < MaxTtlOps /\ Get(Getter, k, i)
    \/ WbStep(Setter)
    \/ MaintStep
    \/ Tick

TtlInit == CacheInit(1 .. (MaxCap + 1)) /\ MemoInit({NoTtl})

SpecTtl == TtlInit /\ [][TtlNext]_vars

\* C10: a get of a key whose latest set stored it with deadline T + ttl
\* returns the value of that set while now < T + ttl; from T + ttl on it
\* returns a miss, leaves the key in neither shard map and counts a miss;
\* this whether or not the maintenance task has run, in a cache that is
\* within its capacity.
C10_TtlVisibility ==
    [][\A k \in KeysSet :
           (WithinCapacity /\ Get(Getter, k, 0)) =>
               IF now < last[k]
               THEN ret'[Getter] = [val |-> last[k], ok |-> TRUE, err |-> FALSE]
               ELSE /\ ret'[Getter] = [val |-> NoValue, ok |-> FALSE, err |-> FALSE]
                    /\ ~Present(smap', k)
                    /\ keymap'[KeyHash(k)] # k
                    /\ misses'[ShardOf(KeyHash(k))] = misses[ShardOf(KeyHash(k))] + 1]_vars

(***************************************************************************)
(* C11: what the maintenance task removes.                                 *)
(***************************************************************************)
\* C11: remove_expired deletes a shard entry only if the entry's expiration
\* is non-zero and not later than now.
C11_RemovesOnlyExpired ==
    [][MaintRemove =>
           \A k \in Keys : (Present(smap, k) /\ ~Present(smap', k)) => Expired(smap[k], now)]_vars

(***************************************************************************)
(* C12: proactive expiry.  The set workload under fair scheduling: the     *)
(* clock advances, the maintenance task keeps running its rounds and a     *)
(* thread inside WriteBuffer.add or _force_drain_write runs on.            *)
(***************************************************************************)
SpecSetsFair ==
    /\ SpecSets
    /\ WF_vars(Tick)
    /\ WF_vars(MaintStep)
    /\ \A t \in CacheThreads : WF_vars(WbStep(t)) /\ WF_vars(FdRemove(t))

TimedEntries == {Entry(v, x) : v \in Values, x \in 1 .. MaxTime}

\* The entry e of key k was set with a TTL and the policy holds the key's
\* fingerprint with a timer that falls due.
Timed(k, e) ==
    /\ smap[k] = e
    /\ ~closed
    /\ KeyHash(k) \in PolicyFps(policy)
    /\ policy.expire[KeyHash(k)] > 0
    /\ policy.expire[KeyHash(k)] <= MaxTime

\* C12: an entry set with a TTL whose record has been drained into the
\* policy is, with no get issued, eventually removed from its shard by the
\* maintenance task, unless a later set replaces it or moves the timer past
\* the end of the clock, and the policy ends with no fingerprint whose timer
\* is due.
C12_ProactiveExpiry ==
    /\ \A k \in SetKeys, e \in TimedEntries :
           Timed(k, e) ~> (smap[k] # e \/ policy.expire[KeyHash(k)] > MaxTime)
    /\ <>[](Due(policy, now) = {})

(***************************************************************************)
(* Workload: get, set and delete calls without TTL from two threads;       *)
(* forced drains once the calls have returned, and no call while one runs; *)
(* the maintenance task.                                                   *)
(***************************************************************************)
MaxOps == 3          \* get, set and delete calls issued in one run of this workload
OpKeys == {"a", "c"}

OpsNext ==
    \/ \E t \in CacheThreads, k \in OpKeys :
           ops < MaxOps /\ ~Draining /\ Set(t, k, 1, NoTtl)
    \/ \E t \in CacheThreads, k \in OpKeys :
           ops < MaxOps /\ ~Draining /\ Delete(t, k)
    \/ \E t \in CacheThreads, k \in OpKeys, i \in RbIndexes :
           ops < MaxOps /\ ~Draining /\ Get(t, k, i)
    \/ \E t \in CacheThreads : AllIdle /\ ForceDrain(t)
    \/ \E t \in CacheThreads : FdRemove(t)
    \/ \E t \in CacheThreads : WbStep(t)
    \/ MaintAcquire
    \/ MaintAdvance

OpsInit == CacheInit(1 .. (MaxCap + 1)) /\ MemoInit({NoTtl})

SpecOps == OpsInit /\ [][OpsNext]_vars

\* The calls have returned, the write buffer is drained and the maintenance
\* task is asleep.
Quiescent == AllIdle /\ buffer = <<>> /\ mpc = "sleep"

\* C13: once the calls have completed and the write buffer has been
\* force-drained, the three segment lengths add up to the policy's node
\* count, which is the sum of the shard entry-map sizes, and every
\* fingerprint the policy holds is in the fingerprint-map of its shard.
C13_PolicyShardAgreement ==
    Quiescent =>
        /\ PolicyLen(policy) = Cardinality(PolicyFps(policy))
        /\ PolicyLen(policy) = CacheLen
        /\ \A fp \in PolicyFps(policy) : keymap[fp] # NoKey


(***************************************************************************)
(* The shard workload: one thread issues set, set_ttl, delete and clear    *)
(* calls on keys of which two share a fingerprint, the other thread issues *)
(* the get calls; the clock advances and the maintenance task runs.        *)
(***************************************************************************)
MaxShardOps == 3     \* calls issued in one run of this workload
ShardKeys == {"a", "c", "d"}
ShardTtls == {NoTtl, <<1>>}
NotClearing == \A t \in Threads : clearing[t] = <<>>

ShardNext ==
    \/ \E k \in ShardKeys, ttl \in ShardTtls :
           ops < MaxShardOps /\ NotClearing /\ Set(Setter, k, 1, ttl)
    \/ \E k \in ShardKeys, ttl_ns \in 0 .. 1 :
           ops < MaxShardOps /\ NotClearing /\ SetTtl(Setter, k, ttl_ns)
    \/ \E k \in ShardKeys : ops < MaxShardOps /\ NotClearing /\ Delete(Setter, k)
    \/ \E k \in ShardKeys, i \in RbIndexes :
           ops < MaxShardOps /\ NotClearing /\ Get(Getter, k, i)
    \/ ops < MaxShardOps /\ AllIdle /\ Clear(Setter)
    \/ FdRemove(Setter)
    \/ ClearStep(Setter)
    \/ WbStep(Setter)
    \/ MaintStep
    \/ Tick

ShardInit == CacheInit({MaxCap}) /\ MemoInit({NoTtl})

SpecShard == ShardInit /\ [][ShardNext]_vars

\* C14: in every reachable state the fingerprint-map and the entry-map of a
\* shard have the same size, every fingerprint maps to a key that is in the
\* entry-map, and every key of the entry-map is the value of exactly one
\* fingerprint.
C14_ShardMapsConsistent ==
    /\ Cardinality({f \in Fps : keymap[f] # NoKey}) = Cardinality({k \in Keys : Present(smap, k)})
    /\ \A f \in Fps : keymap[f] # NoKey => Present(smap, keymap[f])
    /\ \A k \in Keys : Present(smap, k) => Cardinality({f \in Fps : keymap[f] = k}) = 1

\* A set with a deadline replaced a stored key of the same fingerprint.
C14_Witness ==
    /\ keymap[KeyHash("d")] = "d"
    /\ ~Present(smap, "c")
    /\ last["c"] # NoValue
    /\ smap["d"].expire > 0


(***************************************************************************)
(* The collision workload: two threads issue set, get and delete calls on  *)
(* two keys that share a fingerprint; the value of a set is the number of  *)
(* the call, so that last[] tells the order of the sets.                   *)
(***************************************************************************)
MaxCollideOps == 3   \* calls issued in one run of this workload
CollideKeys == {"c", "d"}

CollideNext ==
    \/ \E t \in CacheThreads, k \in CollideKeys :
           ops < MaxCollideOps /\ ~Draining /\ Set(t, k, ops + 1, NoTtl)
    \/ \E t \in CacheThreads, k \in CollideKeys :
           ops < MaxCollideOps /\ ~Draining /\ Delete(t, k)
    \/ \E t \in CacheThreads, k \in CollideKeys, i \in RbIndexes :
           ops < MaxCollideOps /\ ~Draining /\ Get(t, k, i)
    \/ \E t \in CacheThreads : AllIdle /\ ForceDrain(t)
    \/ \E t \in CacheThreads : FdRemove(t)
    \/ \E t \in CacheThreads : WbAdd(t)
    \/ \E t \in CacheThreads : WbTry(t)
    \/ \E t \in CacheThreads : WbSend(t)
    \/ MaintAcquire
    \/ MaintAdvance

CollideInit == CacheInit(1 .. MaxCap) /\ MemoInit({NoTtl})

SpecCollide == CollideInit /\ [][CollideNext]_vars

Miss == [val |-> NoValue, ok |-> FALSE, err |-> FALSE]
Hit(v) == [val |-> v, ok |-> TRUE, err |-> FALSE]
Occurrences(p, fp) ==
    Cardinality({i \in 1 .. Len(p.window) : p.window[i] = fp})
        + Cardinality({i \in 1 .. Len(p.probation) : p.probation[i] = fp})
        + Cardinality({i \in 1 .. Len(p.protected) : p.protected[i] = fp})

\* The calls issued so far are set(k1, .) and then set(k2, .).
SetThenSet(k1, k2) ==
    /\ k1 # k2
    /\ KeyHash(k1) = KeyHash(k2)
    /\ ops = 2
    /\ last[k1] = 1
    /\ last[k2] = 2

\* C15: after set(k1, v1) and then set(k2, v2) on keys of one fingerprint, a
\* get of k2 returns (v2, true), a get of k1 returns (None, false), and once
\* the write buffer is drained the shards hold one entry of that fingerprint
\* and the policy holds the fingerprint once.
C15_CollidingSet ==
    [][\A k1, k2 \in CollideKeys :
           SetThenSet(k1, k2) =>
               /\ \A t \in CacheThreads : Get(t, k2, 0) => ret'[t] = Hit(last[k2])
               /\ \A t \in CacheThreads : Get(t, k1, 0) => ret'[t] = Miss
               /\ Quiescent =>
                      /\ Cardinality({k \in Keys : Present(smap, k)
                                                     /\ KeyHash(k) = KeyHash(k2)}) = 1
                      /\ CacheLen = 1
                      /\ Occurrences(policy, KeyHash(k2)) = 1
                      /\ PolicyLen(policy) = 1]_vars

\* set(c), set(d) and get(c) were issued in this order, the records of the
\* sets are in the policy, and the get missed.
C15_Witness ==
    /\ last["c"] = 1
    /\ last["d"] = 2
    /\ ops = 3
    /\ ret[2] = Miss
    /\ hits[ShardOf(KeyHash("c"))] = 0
    /\ misses[ShardOf(KeyHash("c"))] = 1
    /\ Quiescent
    /\ policy.window = <<KeyHash("d")>>


\* C16: delete(k) leaves k absent, only a later set(k) stores k again, a get
\* of an absent key returns (None, false), and delete(k) lowers len(cache)
\* by one when k was present and leaves it unchanged otherwise.
C16_DeleteThenGet ==
    [][\A t \in CacheThreads, k \in CollideKeys :
           /\ Delete(t, k) =>
                  /\ ~Present(smap', k)
                  /\ CacheLen' = CacheLen - (IF Present(smap, k) THEN 1 ELSE 0)
           /\ (~Present(smap, k) /\ Present(smap', k)) =>
                  \E t2 \in CacheThreads : Set(t2, k, ops + 1, NoTtl)
           /\ (Get(t, k, 0) /\ ~Present(smap, k)) => ret'[t] = Miss]_vars

\* C17: delete(k) returns True exactly when k itself was present, and
\* removes no entry other than k's.
C17_DeleteReturn ==
    [][\A t \in CacheThreads, k \in CollideKeys :
           Delete(t, k) =>
               /\ ret'[t].ok = Present(smap, k)
               /\ \A k2 \in Keys \ {k} : Present(smap, k2) => Present(smap', k2)]_vars


\* The step with which a clear() issued with no other call in progress
\* returns.
ClearReturns == ClearShard(Setter) /\ pc'[Setter] = "idle"

\* C18: when clear() returns, with no concurrent operation, len(cache) is 0,
\* the policy holds no node, no record remains in the write buffer, and no
\* key is a hit.
C18_ClearEmpties ==
    [][ClearReturns =>
           /\ CacheLen' = 0
           /\ PolicyLen(policy') = 0
           /\ PolicyFps(policy') = {}
           /\ buffer' = <<>>
           /\ \A t \in Threads : arg'[t] = NoRec /\ batch'[t] = <<>>
           /\ \A k \in Keys : ~ShardGetOk(smap', k, now')
           /\ \A f \in Fps : keymap'[f] = NoKey]_vars

\* set(a) and clear() were issued and have returned (a delete of a would
\* have returned True, a set_ttl would have left a stored, and nothing
\* expired): the shards are empty.
C18_Witness ==
    /\ ops = 2
    /\ last["a"] = 1
    /\ ret[Setter] = NoRet
    /\ now = 0
    /\ AllIdle
    /\ NotClearing
    /\ CacheLen = 0
    /\ PolicyLen(policy) = 0


(***************************************************************************)
(* The ttl-argument workload: one thread issues set calls without ttl and  *)
(* with a positive, a zero and a negative ttl, the other thread issues the *)
(* get calls.  A timedelta has a resolution of one microsecond, so the     *)
(* ttl_ns of a negative ttl is at most -1000 and never the -1 of a delete  *)
(* record; -2 stands for these values.                                     *)
(***************************************************************************)
MaxArgOps == 3       \* calls issued in one run of this workload
ArgKeys == {"a", "c"}
ZeroTtl == <<0>>
NegativeTtls == {<<-2>>}
ArgTtls == {NoTtl, <<1>>, ZeroTtl} \cup NegativeTtls

ArgNext ==
    \/ \E k \in ArgKeys, ttl \in ArgTtls : ops < MaxArgOps /\ Set(Setter, k, ops + 1, ttl)
    \/ \E k \in ArgKeys, i \in RbIndexes : ops < MaxArgOps /\ Get(Getter, k, i)
    \/ WbStep(Setter)
    \/ MaintStep
    \/ Tick

ArgInit == CacheInit({MaxCap}) /\ MemoInit({NoTtl})

SpecArg == ArgInit /\ [][ArgNext]_vars

\* C19: set(k, v, ttl=0) raises and leaves the shard maps, the write buffer
\* and the policy as they were; get(k) returns what it returned before.
C19_ZeroTtlRejected ==
    [][\A k \in ArgKeys :
           Set(Setter, k, ops + 1, ZeroTtl) =>
               /\ ret'[Setter].err
               /\ UNCHANGED <<smap, keymap, buffer, policy, arg, batch, pc>>
               /\ ShardGetOk(smap', k, now') = ShardGetOk(smap, k, now)
               /\ ShardGetValue(smap', k, now') = ShardGetValue(smap, k, now)]_vars

\* set(a, 1) was stored, a set with a zero ttl raised, and get(a) returned 1.
C19_Witness ==
    /\ ops = 3
    /\ last = [k \in Keys |-> IF k = "a" THEN 1 ELSE NoValue]
    /\ ret[Setter].err
    /\ ret[Getter] = Hit(1)
    /\ smap["a"] = Entry(1, 0)

\* C20: a set with a negative ttl raises and stores nothing, and no record
\* with a negative ttl of a set is written to the write buffer.
C20_NegativeTtlRejected ==
    [][\A k \in ArgKeys, ttl \in NegativeTtls :
           Set(Setter, k, ops + 1, ttl) =>
               /\ ret'[Setter].err
               /\ UNCHANGED <<smap, keymap>>
               /\ arg'[Setter] = NoRec]_vars


(***************************************************************************)
(* The write-buffer workload: two threads issue set and delete calls, each *)
(* set with a ttl of its own so that its record is unlike any other; the   *)
(* maintenance task takes and releases the policy lock; the history of the *)
(* buffer is kept.                                                         *)
(***************************************************************************)
MaxWbOps == 3        \* set and delete calls issued in one run of this workload
WbKeys == {"a", "c"}

WbNext ==
    \/ \E t \in CacheThreads, k \in WbKeys : ops < MaxWbOps /\ Set(t, k, 1, <<ops + 1>>)
    \/ \E t \in CacheThreads, k \in WbKeys : ops < MaxWbOps /\ Delete(t, k)
    \/ \E t \in CacheThreads : WbStep(t)
    \/ MaintAcquire
    \/ MaintAdvance

WbInit == CacheInitWith({MaxCap}, NewLog) /\ MemoInit({NoTtl})

SpecWb == WbInit /\ [][WbNext]_vars

\* The records a thread has taken from the buffer and not yet passed on.
Taken == IF \E t \in Threads : pc[t] = "wb_send"
         THEN batch[CHOOSE t \in Threads : pc[t] = "wb_send"]
         ELSE <<>>

WbDrained == buffer = <<>> /\ Taken = <<>>

\* C21: the records passed to the policy, then those a draining thread
\* holds, then those staged are the appended records in the order of their
\* appending; so once the buffer is drained every record has been passed to
\* the policy exactly once, in that order.
C21_DeliveredOnceInOrder ==
    /\ Cardinality({t \in Threads : pc[t] = "wb_send"}) <= 1
    /\ wlog.staged = wlog.applied \o Taken \o buffer
    /\ WbDrained => wlog.applied = wlog.staged

\* Three records were appended, an add found the policy lock held and left
\* its record staged, and all three have been passed to the policy.
C21_Witness ==
    /\ wlog.busy
    /\ Len(wlog.staged) = 3
    /\ WbDrained
    /\ AllIdle
    /\ wlog.applied = wlog.staged


\* C22: an add appends its record last and keeps the buffer to itself until
\* it has tried the policy lock; if it finds the lock free it takes every
\* staged record, its own included, in one batch, which is that one record
\* when no add has found the lock held; if it finds the lock held and fewer
\* than BufferSize records staged it returns, without waiting and without
\* draining.
C22_DrainTrigger ==
    [][\A t \in CacheThreads :
           /\ WbAdd(t) => Last(buffer') = arg[t]
           /\ (pc[t] = "wb_try" /\ pc'[t] = "wb_try") => buffer' = buffer
           /\ (WbTry(t) /\ coreLock = Free) =>
                  /\ buffer # <<>>
                  /\ batch'[t] = buffer
                  /\ buffer' = <<>>
                  /\ pc'[t] = "wb_send"
                  /\ ~wlog.busy => Len(buffer) = 1
           /\ (WbTry(t) /\ coreLock # Free /\ Len(buffer) < BufferSize) =>
                  /\ pc'[t] = "idle"
                  /\ UNCHANGED <<buffer, batch, policy, coreLock>>
           /\ (pc[t] = "wb_try" /\ coreLock # Free /\ Len(buffer) < BufferSize) =>
                  ENABLED WbTry(t)]_vars

\* An add found the policy lock held by the maintenance task and returned
\* with its record staged; the next add took both records in one batch.
C22_Witness ==
    /\ wlog.busy
    /\ \E t \in CacheThreads : pc[t] = "wb_send" /\ Len(batch[t]) = 2
    /\ wlog.applied = <<>>


(***************************************************************************)
(* The statistics workload: two threads call get and the memoized          *)
(* function, a third thread calls stats().  No key lives in shard 0, so    *)
(* the hit counter of shard 0 counts the stats() calls made so far.        *)
(***************************************************************************)
MaxStats == 2        \* stats() calls issued in one run of this workload
Reporter == 3        \* the thread that calls stats()
StatKeys == {"a", "c"}
StatsCalls == hits[0]

StatsNext ==
    \/ \E t \in CacheThreads, k \in StatKeys, i \in RbIndexes :
           ops < MaxCalls /\ MemoCall(t, k, i)
    \/ \E t \in CacheThreads, k \in StatKeys, i \in RbIndexes :
           ops < MaxCalls /\ Get(t, k, i)
    \/ \E t \in CacheThreads, i \in RbIndexes : MemoClaim(t, i)
    \/ \E t \in CacheThreads : MemoProduce(t, FALSE)
    \/ \E t \in CacheThreads : MemoStore(t)
    \/ \E t \in CacheThreads : MemoSetEvent(t)
    \/ \E t \in CacheThreads : MemoWait(t)
    \/ \E t \in CacheThreads : WbStep(t)
    \/ StatsCalls < MaxStats /\ Stats(Reporter)

StatsInit == CacheInit({MaxCap}) /\ MemoInit({NoTtl})

SpecStats == StatsInit /\ [][StatsNext]_vars

\* A get or a memoized call of key k by thread t moves on exactly one
\* counter of the key's shard by one: the hit counter if the lookup is a
\* hit, the miss counter if not.
CountsOnce(t, k) ==
    LET s == ShardOf(KeyHash(k))
    IN  IF ret'[t].ok
        THEN hits' = [hits EXCEPT ![s] = @ + 1] /\ misses' = misses
        ELSE misses' = [misses EXCEPT ![s] = @ + 1] /\ hits' = hits

MaxCloseOps == 3     \* calls issued in one run of this workload
CloseKeys == {"a", "c"}

CloseNext ==
    \/ \E k \in CloseKeys : ops < MaxCloseOps /\ Set(Setter, k, 1, <<1>>)
    \/ \E k \in CloseKeys : ops < MaxCloseOps /\ Delete(Setter, k)
    \/ \E k \in CloseKeys, i \in RbIndexes : ops < MaxCloseOps /\ Get(Getter, k, i)
    \/ ops < MaxCloseOps /\ ~closed /\ Close(Getter)
    \/ WbStep(Setter)
    \/ MaintStep
    \/ Tick

CloseInit == CacheInit({MaxCap}) /\ MemoInit({NoTtl})

SpecClose == CloseInit /\ [][CloseNext]_vars

\* The maintenance task is scheduled again after each sleep, a thread that
\* is in WriteBuffer.add goes on, and the clock advances.
SpecCloseFair ==
    /\ SpecClose
    /\ WF_vars(MaintStep)
    /\ WF_vars(WbStep(Setter))
    /\ WF_vars(Tick)

\* C24: after close() the maintenance task eventually terminates.
C24_CloseStopsMaintenance == closed ~> (mpc = "done")

\* A stored entry has left its shard without a delete, close() was called
\* and the maintenance task has terminated.
C24_Witness ==
    /\ closed
    /\ mpc = "done"
    /\ now = MaxTime
    /\ \E k \in CloseKeys : last[k] # NoValue /\ ~Present(smap, k) /\ ret[Setter] = NoRet


\* The results of get, set and delete do not depend on _closed.
SameResultsWhenClosed ==
    /\ \A k \in CloseKeys :
           Get(Getter, k, 0) =>
               ret'[Getter] = [val |-> ShardGetValue(smap, k, now),
                               ok |-> ShardGetOk(smap, k, now), err |-> FALSE]
    /\ \A k \in CloseKeys :
           Delete(Setter, k) => (ret'[Setter].ok = Present(smap, k) /\ ~Present(smap', k))
    /\ \A k \in CloseKeys :
           Set(Setter, k, 1, <<1>>) => smap'[k] = Entry(1, now + 1)

\* After close() the maintenance task does not call advance(): the round
\* that finds the cache closed leaves the policy alone and ends the task,
\* and the list of fingerprints the task has to remove only shrinks.
NoAdvanceWhenClosed ==
    /\ MaintAdvance => (mpc' = "done" /\ UNCHANGED <<policy, mevicted>>)
    /\ \/ mevicted' = mevicted
       \/ mevicted # <<>> /\ mevicted' = Tail(mevicted)
    /\ mpc = "done" => (mpc' = "done" /\ UNCHANGED <<mevicted>>)

\* C25 as stated: once close() has returned the maintenance task never
\* calls advance() again and never removes another entry from a shard, and
\* get, set and delete return what they return on an open cache.
C25_NoExpiryAfterCloseOriginal ==
    [][closed => /\ NoAdvanceWhenClosed
                 /\ ~MaintRemove
                 /\ SameResultsWhenClosed]_vars

\* C25, amended: once close() has returned the maintenance task never calls
\* advance() again and removes from the shards only the fingerprints that
\* an advance() completed before the close had returned; get, set and
\* delete return what they return on an open cache.
C25_NoExpiryAfterClose ==
    [][closed => /\ NoAdvanceWhenClosed
                 /\ SameResultsWhenClosed]_vars

\* The cache is closed, the maintenance task has terminated, and an entry
\* whose deadline has passed is still in its shard and in the policy.
C25_Witness ==
    /\ closed
    /\ mpc = "done"
    /\ \E k \in CloseKeys :
           /\ Present(smap, k)
           /\ Expired(smap[k], now)
           /\ KeyHash(k) \in PolicyFps(policy)


(***************************************************************************)
(* The workload of the lock order: three threads call the memoized         *)
(* function, threads 1 and 2 once each, thread 3 repeatedly and in between *)
(* it calls _force_drain_write.  Thread 2 calls with key "a", the others   *)
(* with key "c".                                                           *)
(***************************************************************************)
MaxLockCalls == 18   \* memoized calls and force drains issued in one run

Drainer == 3
LockKey(t) == IF t = 2 THEN "a" ELSE "c"

LockNext ==
    \/ \E t \in Threads :
          \/ /\ ops < MaxLockCalls
             /\ t = Drainer \/ mkey[t] = NoKey
             /\ \E i \in RbIndexes : MemoCall(t, LockKey(t), i)
          \/ \E i \in RbIndexes : MemoClaim(t, i)
          \/ MemoProduce(t, FALSE)
          \/ MemoStore(t)
          \/ MemoSetEvent(t)
          \/ MemoWait(t)
          \/ DrainRead(t)
          \/ WbStep(t)
    \/ ForceDrain(Drainer)
    \/ FdRemove(Drainer)

LockInit == CacheInit({MaxCap}) /\ MemoInitFor({NoTtl}, 1 .. MaxLockCalls)

SpecLock == LockInit /\ [][LockNext]_vars

\* The locks a thread waits for and the locks it holds while it waits.
WantsCore(t) ==
    \/ pc[t] \in {"rb_drain", "m_drain", "clear_core"}
    \/ pc[t] = "wb_try" /\ Len(buffer) >= BufferSize
WantsShard(t, s) ==
    /\ pc[t] \in {"fd_remove", "wb_remove"}
    /\ evicted[t] # <<>>
    /\ ShardOf(Head(evicted[t])) = s
WaitsFor(t, u) ==
    /\ t # u
    /\ \/ WantsCore(t) /\ coreLock = u
       \/ \E s \in ShardIds : WantsShard(t, s) /\ HoldsShard(u, s)

\* C26: deadlock freedom -- no two threads wait for each other: none holds a
\* shard lock and waits for the policy lock while the holder of the policy
\* lock waits for that shard lock.
C26_DeadlockFree == \A t, u \in Threads : ~(WaitsFor(t, u) /\ WaitsFor(u, t))


(***************************************************************************)
(* The workload of the forced drain: threads 1 and 2 set and delete while  *)
(* thread 3 calls _force_drain_write (the first half of clear).            *)
(***************************************************************************)
MaxDropOps == 3      \* set and delete calls issued in one run

DropKeys == {"a", "c"}

DropNext ==
    \/ \E t \in CacheThreads :
          \/ /\ ops < MaxDropOps
             /\ \E k \in DropKeys : Set(t, k, ops + 1, NoTtl) \/ Delete(t, k)
          \/ WbStep(t)
    \/ ForceDrain(Drainer)
    \/ FdRemove(Drainer)

DropInit == CacheInitWith({MaxCap}, NewLog) /\ MemoInit({NoTtl})

SpecDrop == DropInit /\ [][DropNext]_vars

\* How often a record occurs in a sequence of records.
CountOf(recs, r) == Cardinality({i \in 1 .. Len(recs) : recs[i] = r})

\* No call is in progress and no record is staged.
DropQuiet == AllIdle /\ buffer = <<>>

\* C27: no write record is dropped -- once every set, delete and forced drain
\* has returned and the buffer is empty, each record that was appended to the
\* write buffer has been passed to policy.set exactly as often as it was
\* appended: none is discarded by the tail reset, none is applied twice.
C27_NoRecordDropped ==
    DropQuiet => \A r \in SeqSet(wlog.staged) \cup SeqSet(wlog.applied) :
                     CountOf(wlog.applied, r) = CountOf(wlog.staged, r)


(***************************************************************************)
(* The workload of one key: two threads set the key, with and without a    *)
(* TTL, and delete it; every record goes through WriteBuffer.add.  The     *)
(* clock stands still and nothing is evicted.                              *)
(***************************************************************************)
MaxOrderOps == 3     \* set and delete calls issued in one run

OrderKey == "a"
OrderTtls == {NoTtl, <<1>>, <<2>>}

OrderNext ==
    \/ \E t \in CacheThreads, ttl \in OrderTtls :
           ops < MaxOrderOps /\ Set(t, OrderKey, ops + 1, ttl)
    \/ \E t \in CacheThreads : ops < MaxOrderOps /\ Delete(t, OrderKey)
    \/ \E t \in CacheThreads : WbAdd(t) \/ WbTry(t) \/ WbSend(t)

OrderInit == CacheInit({MaxCap}) /\ MemoInit({NoTtl})

SpecOrder == OrderInit /\ [][OrderNext]_vars

\* C28: per-key order agreement -- once the concurrent operations on the key
\* have returned and the write buffer is drained, the key is in its shard
\* exactly if its fingerprint is in the policy, and then the policy's
\* deadline for the fingerprint is the deadline of the entry in the shard.
C28_PerKeyOrderAgreement ==
    (AllIdle /\ buffer = <<>>) =>
        /\ Present(smap, OrderKey) <=> KeyHash(OrderKey) \in PolicyFps(policy)
        /\ Present(smap, OrderKey) =>
               policy.expire[KeyHash(OrderKey)] = smap[OrderKey].expire


(***************************************************************************)
(* The workload of the two modes: the cache is constructed with nolock     *)
(* false or true; one user thread sets with a TTL, deletes and gets, the   *)
(* maintenance task runs in its own thread and the clock advances.         *)
(***************************************************************************)
MaxModeOps == 3      \* get, set and delete calls issued in one run

ModeKeys == {"a", "c"}

ModeNext ==
    \/ \E k \in ModeKeys : ops < MaxModeOps /\ Set(Setter, k, ops + 1, <<1>>)
    \/ \E k \in ModeKeys : ops < MaxModeOps /\ Delete(Setter, k)
    \/ \E k \in ModeKeys, i \in RbIndexes : ops < MaxModeOps /\ Get(Setter, k, i)
    \/ WbStep(Setter)
    \/ MaintStep
    \/ Tick

ModeInit == CacheInitMode({MaxCap}, NoLog, BOOLEAN) /\ MemoInit({NoTtl})

SpecMode == ModeInit /\ [][ModeNext]_vars

MaxReadOps == 17     \* get and set calls issued in one run

ReadKey == "a"

ReadNext ==
    \/ ops < MaxReadOps /\ Set(Setter, ReadKey, 1, NoTtl)
    \/ \E i \in RbIndexes : ops < MaxReadOps /\ Get(Getter, ReadKey, i)
    \/ DrainRead(Getter)
    \/ WbAdd(Setter) \/ WbTry(Setter) \/ WbSend(Setter)
    \/ MaintAcquire
    \/ MaintAdvance

ReadInit == CacheInit({MaxCap}) /\ MemoInit({NoTtl})

SpecRead == ReadInit /\ [][ReadNext]_vars

\* C30: reads do not wait on the policy -- no get is in _drain_read waiting
\* for the policy lock while another thread holds it.
C30_ReadsDoNotWait ==
    \A t \in Threads : pc[t] = "rb_drain" => coreLock = Free


\* C31: the policy lock is held only around policy operations -- a thread
\* that removes an evicted or expired fingerprint from a shard, in the
\* write-buffer drain, in the forced drain and in the maintenance task, takes
\* the shard lock after it has released the policy lock.
C31_PolicyLockOnlyAroundPolicy ==
    [][/\ \A t \in Threads :
              (WbRemove(t) \/ (FdRemove(t) /\ evicted[t] # <<>>)) => coreLock # t
       /\ MaintRemove => coreLock # Maint]_vars


\* C32: staged writes are eventually applied -- whenever a record is staged in
\* the write buffer, the buffer is eventually drained into the policy, with
\* the maintenance task running and no further call issued.
C32_StagedEventuallyApplied == (buffer # <<>>) ~> (buffer = <<>>)


(***************************************************************************)
(* The workload of the full write buffer: two threads set a key while the  *)
(* maintenance task takes the policy lock for its rounds and a third       *)
(* thread calls _force_drain_write.                                        *)
(***************************************************************************)
MaxBoundOps == 17    \* set calls issued in one run

BoundKey == "a"

BoundNext ==
    \/ \E t \in CacheThreads : ops < MaxBoundOps /\ Set(t, BoundKey, 1, NoTtl)
    \/ \E t \in CacheThreads : WbAdd(t) \/ WbTry(t) \/ WbSend(t)
    \/ ForceDrain(Drainer)
    \/ FdRemove(Drainer)
    \/ MaintAcquire
    \/ MaintAdvance

BoundInit == CacheInit({MaxCap}) /\ MemoInit({NoTtl})

SpecBound == BoundInit /\ [][BoundNext]_vars

\* C33: write buffer bound -- the tail is at most 16 and no add finds it at
\* 16 (it would write at index 16); no batch taken for the policy has more
\* than 16 records; while 16 records are staged, the add that staged the
\* sixteenth has not returned: it holds the buffer's mutex and waits for the
\* policy lock.
C33_WriteBufferBound ==
    /\ Len(buffer) <= BufferSize
    /\ \A t \in Threads : pc[t] # "index_error"
    /\ \A t \in Threads : Len(batch[t]) <= BufferSize
    /\ Len(buffer) = BufferSize => \E t \in Threads : pc[t] = "wb_try" /\ wbLock = t

\* Sixteen records are staged while the maintenance task holds the policy
\* lock, and the thread that staged the last one is waiting inside add.
C33_Witness ==
    /\ Len(buffer) = BufferSize
    /\ coreLock = Maint
    /\ \E t \in CacheThreads : pc[t] = "wb_try"


(***************************************************************************)
(* The workload of the read stripes: the cache is in either mode; thread 1 *)
(* sets a key and gets it, in locking mode thread 2 gets it too, and every *)
(* sample goes to the same stripe.                                         *)
(***************************************************************************)
MaxStripeOps == 18   \* get and set calls issued in one run

StripeKey == "a"
Readers == IF nolock THEN {Setter} ELSE CacheThreads

StripeNext ==
    \/ ops < MaxStripeOps /\ last[StripeKey] = NoValue /\ Set(Setter, StripeKey, 1, NoTtl)
    \/ WbAdd(Setter) \/ WbTry(Setter) \/ WbSend(Setter)
    \/ \E t \in Readers :
          \/ ops < MaxStripeOps /\ GetSample(t, StripeKey)
          \/ \E i \in RbIndexes : RbTry(t, i)
          \/ RbAppend(t)
          \/ DrainRead(t)

StripeInit == CacheInitMode({MaxCap}, NoLog, BOOLEAN) /\ MemoInit({NoTtl})

SpecStripe == StripeInit /\ [][StripeNext]_vars

RECURSIVE SumLen(_, _)
SumLen(f, S) ==
    IF S = {} THEN 0
    ELSE LET x == CHOOSE y \in S : TRUE IN Len(f[x]) + SumLen(f, S \ {x})

\* C34: read stripe bound and delivery -- a stripe whose lock is free holds
\* at most 15 samples; a batch handed to _drain_read holds exactly 16, and the
\* thread that hands it over no longer holds a stripe lock; the samples
\* appended are those still in the stripes, those in the batches handed over
\* and those passed to the policy, so none is passed twice.
C34_StripeBoundAndDelivery ==
    /\ \A i \in StripeIds : slock[i] = Free => Len(stripes[i]) <= StripeSize - 1
    /\ \A t \in Threads : pc[t] = "rb_drain" =>
           /\ Len(waiting[t]) = StripeSize
           /\ \A i \in StripeIds : slock[i] # t
    /\ \A t \in Threads : pc[t] # "rb_drain" => waiting[t] = <<>>
    /\ rlog.appended = SumLen(stripes, StripeIds) + SumLen(waiting, Threads) + rlog.delivered

\* In locking mode a reader is about to drain the full batch it took while
\* the other reader holds the lock of the same stripe to append to it.
C34_Witness ==
    /\ ~nolock
    /\ \E t, u \in CacheThreads : pc[t] = "rb_drain" /\ pc[u] = "rb_locked"


\* C35: dropping a read sample has no effect -- StripedBuffer.add never waits
\* for the stripe's lock; an add whose try-acquire fails returns and changes
\* no stripe, shard, write-buffer or policy state and no result; no add
\* raises, in either mode.
C35_DroppedSampleNoEffect ==
    [][\A t \in Threads, i \in RbIndexes :
           /\ pc[t] = "rb_try" => ENABLED RbTry(t, i)
           /\ (RbTry(t, i) /\ ~nolock /\ slock[i] # Free) =>
                  /\ pc'[t] = "idle"
                  /\ UNCHANGED <<stripes, slock, waiting, rlog, shardVars, wbVars, coreLock,
                                 policy, ret>>
           /\ pc'[t] # "release_error"]_vars

\* Every get has returned and more gets have hit than samples were appended:
\* a sample was dropped.
C35_Witness ==
    /\ ~nolock
    /\ AllIdle
    /\ Total(hits) > rlog.appended


(***************************************************************************)
(* The workload of the TTL update: one thread sets keys and calls _access  *)
(* on them, with and without a TTL; the clock stands still.                *)
(***************************************************************************)
MaxAccessOps == 3    \* set and _access calls issued in one run

AccessKeys == {"a", "c"}
AccessTtls == {NoTtl, <<1>>, <<0>>}

AccessNext ==
    \/ \E k \in AccessKeys, ttl \in AccessTtls :
           ops < MaxAccessOps /\ Set(Setter, k, ops + 1, ttl)
    \/ \E k \in AccessKeys, ttl \in AccessTtls :
           ops < MaxAccessOps /\ Access(Setter, k, ttl)
    \/ WbStep(Setter)

AccessInit == CacheInit(1 .. (MaxCap + 1)) /\ MemoInit({NoTtl})

SpecAccess == AccessInit /\ [][AccessNext]_vars

\* C36: _access(key, ttl) of a key that is not in its shard leaves the shard
\* unchanged, and of a key that is present changes only the expiration of
\* its entry; once the call has returned and its record is drained the
\* policy holds no fingerprint that has no key in its shard.
C36_AccessAbsentNoOp ==
    [][/\ \A k \in AccessKeys, ttl \in AccessTtls :
              Access(Setter, k, ttl) =>
                  /\ keymap' = keymap
                  /\ \A k2 \in Keys : smap'[k2].value = smap[k2].value
                  /\ \A k2 \in Keys : (k2 # k \/ ~Present(smap, k)) => smap'[k2] = smap[k2]
       /\ (AllIdle' /\ buffer' = <<>>) =>
              \A fp \in PolicyFps(policy') : keymap'[fp] # NoKey]_vars


\* C37: stats() is a pure read -- a stats() call moves no hit or miss counter
\* and, however many stats() calls came before, reports as request_count the
\* number of calls made.
C37_StatsPureRead ==
    [][Stats(Reporter) =>
           /\ UNCHANGED <<hits, misses>>
           /\ ret'[Reporter].request_count = ops]_vars

\* C38: stats() never fails -- on a cache that has served no call yet stats()
\* raises no error and reports request_count 0 and hit_count 0.
C38_StatsNeverFails ==
    [][(Stats(Reporter) /\ ops = 0) =>
           /\ ~ret'[Reporter].err
           /\ ret'[Reporter].request_count = 0
           /\ ret'[Reporter].hit_count = 0]_vars

(***************************************************************************)
(* Two cache instances on the one maintainer loop.  Every Cache schedules  *)
(* its maintenance coroutine on _maintainer_loop, which one thread runs:   *)
(* a coroutine holds that thread from the moment it is resumed until its   *)
(* next await asyncio.sleep(1), the blocking acquire of its _core_mutex    *)
(* included.  The first instance is the cache of this module; of the       *)
(* second one, peer keeps _closed, the holder of its policy lock, the      *)
(* position of its maintenance coroutine and the number of times one of    *)
(* its own threads took its policy lock.                                   *)
(***************************************************************************)
MaxSharedOps == 2    \* set calls issued to the first instance in one run
MaxPeerOps == 2      \* times a thread of the second instance takes its policy lock

PeerOnLoop == peer.mpc \in {"wait", "locked", "remove"}
MainOnLoop == mpc \in {"wait", "locked", "remove"}

\* the loop resumes the first instance's coroutine, which goes on to
\* `with self._core_mutex`
SharedWake ==
    /\ mpc = "sleep"
    /\ ~PeerOnLoop
    /\ mpc' = "wait"
    /\ UNCHANGED <<now, closed, capacity, nolock, peer, late, slock, rlog, clearing, wlog, shardVars, stripes,
                   wbVars, coreLock, policy, pc, arg, batch, evicted, waiting, ret, mevicted,
                   ops, last, memoVars>>

SharedAcquire ==
    /\ mpc = "wait"
    /\ coreLock = Free
    /\ coreLock' = Maint
    /\ mpc' = "locked"
    /\ UNCHANGED <<now, closed, capacity, nolock, peer, late, slock, rlog, clearing, wlog, shardVars, stripes,
                   wbVars, policy, pc, arg, batch, evicted, waiting, ret, mevicted, ops, last,
                   memoVars>>

PeerUnchanged ==
    UNCHANGED <<now, closed, capacity, nolock, late, slock, rlog, clearing, wlog, shardVars, stripes,
                wbVars, coreLock, policy, pc, arg, batch, evicted, waiting, ret, maintVars, ops,
                last, memoVars>>

\* a thread of the second instance takes its policy lock, or releases it
PeerUse ==
    /\ \/ /\ peer.lock = Free
          /\ peer.uses < MaxPeerOps
          /\ peer' = [peer EXCEPT !.lock = Setter, !.uses = @ + 1]
       \/ /\ peer.lock = Setter
          /\ peer' = [peer EXCEPT !.lock = Free]
    /\ PeerUnchanged

\* Cache.close of the second instance
PeerClose ==
    /\ ~peer.closed
    /\ peer.lock = Free
    /\ peer' = [peer EXCEPT !.closed = TRUE]
    /\ PeerUnchanged

PeerWake ==
    /\ peer.mpc = "sleep"
    /\ ~MainOnLoop
    /\ peer' = [peer EXCEPT !.mpc = "wait"]
    /\ PeerUnchanged

PeerAcquire ==
    /\ peer.mpc = "wait"
    /\ peer.lock = Free
    /\ peer' = [peer EXCEPT !.lock = Maint, !.mpc = "locked"]
    /\ PeerUnchanged

\* the rest of the second instance's round: the _closed test and
\* core.advance under the lock, then the removals and the sleep
PeerRound ==
    /\ \/ /\ peer.mpc = "locked"
          /\ peer' = [peer EXCEPT !.lock = Free,
                                  !.mpc = IF peer.closed THEN "done" ELSE "remove"]
       \/ /\ peer.mpc = "remove"
          /\ peer' = [peer EXCEPT !.mpc = "sleep"]
    /\ PeerUnchanged

SharedKeys == {"a", "c"}

SharedNext ==
    \/ \E k \in SharedKeys : ops < MaxSharedOps /\ pc[Setter] = "idle" /\ Set(Setter, k, 1, <<1>>)
    \/ WbStep(Setter)
    \/ SharedWake
    \/ SharedAcquire
    \/ MaintAdvance
    \/ MaintRemove
    \/ PeerUse
    \/ PeerClose
    \/ PeerWake
    \/ PeerAcquire
    \/ PeerRound
    \/ Tick

SharedInit == CacheInit({MaxCap}) /\ MemoInit({NoTtl})

SpecShared == SharedInit /\ [][SharedNext]_vars

\* The loop resumes every coroutine whose sleep is over, in turn; a thread
\* inside WriteBuffer.add runs on; a thread that holds a lock releases it.
SpecSharedFair ==
    /\ SpecShared
    /\ WF_vars(Tick)
    /\ WF_vars(WbStep(Setter))
    /\ SF_vars(SharedWake)
    /\ SF_vars(PeerWake)
    /\ WF_vars(SharedAcquire \/ MaintAdvance \/ MaintRemove)
    /\ WF_vars(PeerUse /\ peer'.lock = Free)
    /\ WF_vars(PeerAcquire \/ PeerRound)

\* No entry whose TTL has passed is left in the shards, but for the entries
\* whose policy timer falls due after the end of the clock.
NoExpiredLeft ==
    \A k \in Keys :
        Present(smap, k) /\ Expired(smap[k], now) => policy.expire[KeyHash(k)] > MaxTime

\* C39: with a second instance on the same maintainer loop, which may be
\* closed at any moment, the first instance ends with none of its expired
\* entries left in its shards.
C39_InstancesExpireIndependently == <>[]NoExpiredLeft

\* The same for the entries whose records have left the write buffer.
SharedDrainedExpire == <>[](buffer = <<>> => NoExpiredLeft)

(***************************************************************************)
(* The older memoizer, thenie.py: Wrapper.__call__ with lock=True over the *)
(* older Cache, whose get and set read and write the dict _cache.  smap    *)
(* stands for that dict; the cache is large enough to evict nothing and    *)
(* the entries are stored without TTL.  A thread is at "l_claim" after its *)
(* get missed, at "l_produce" while it runs the function, at "l_pop",      *)
(* "l_store" and "l_set" after the function returned, and at "l_wait" in   *)
(* ve.event.wait().                                                        *)
(***************************************************************************)
MaxLegacyCalls == 3  \* calls of the memoized function issued in one run

\* data = self._cache.get(key, sentinel); a hit returns data, a miss goes on
\* to event = EventData(Event(), None)
LegacyCall(t, k) ==
    /\ pc[t] = "idle"
    /\ ops' = ops + 1
    /\ mkey' = [mkey EXCEPT ![t] = k]
    /\ IF Present(smap, k)
       THEN /\ ret' = [ret EXCEPT ![t] = [val |-> smap[k].value, ok |-> TRUE, err |-> FALSE]]
            /\ UNCHANGED <<pc, mid, mve>>
       ELSE /\ ret' = [ret EXCEPT ![t] = NoRet]
            /\ mid' = [mid EXCEPT ![t] = ops + 1]
            /\ mve' = [mve EXCEPT ![t] = 0]
            /\ pc' = [pc EXCEPT ![t] = "l_claim"]
    /\ UNCHANGED <<now, closed, capacity, nolock, peer, late, slock, rlog, clearing, wlog, shardVars,
                   stripes, wbVars, coreLock, policy, arg, batch, evicted, waiting, maintVars,
                   last, mttl, events, evs, pcalls, asyncVars>>

\* ve = self._events.setdefault(key, event)
LegacyClaim(t) ==
    LET k == mkey[t]
    IN  /\ pc[t] = "l_claim"
        /\ IF events[k] = 0
           THEN /\ events' = [events EXCEPT ![k] = mid[t]]
                /\ mve' = [mve EXCEPT ![t] = mid[t]]
                /\ pc' = [pc EXCEPT ![t] = "l_produce"]
           ELSE /\ mve' = [mve EXCEPT ![t] = events[k]]
                /\ pc' = [pc EXCEPT ![t] = "l_wait"]
                /\ UNCHANGED events
        /\ UNCHANGED <<now, closed, capacity, nolock, peer, late, slock, rlog, clearing, wlog, shardVars,
                       stripes, wbVars, coreLock, policy, arg, batch, evicted, waiting, ret,
                       maintVars, ops, last, mttl, evs, mid, mkey, pcalls, asyncVars>>

\* result = self._func(*args, **kwargs); event.data = result
LegacyProduce(t) ==
    /\ pc[t] = "l_produce"
    /\ pcalls' = [pcalls EXCEPT ![mkey[t]] = @ + 1]
    /\ evs' = [evs EXCEPT ![mid[t]].data = ProducerValue(mkey[t])]
    /\ pc' = [pc EXCEPT ![t] = "l_pop"]
    /\ UNCHANGED <<now, closed, capacity, nolock, peer, late, slock, rlog, clearing, wlog, shardVars,
                   stripes, wbVars, coreLock, policy, arg, batch, evicted, waiting, ret,
                   maintVars, ops, last, mttl, events, mid, mkey, mve, asyncVars>>

\* self._events.pop(key, None)
LegacyPop(t) ==
    /\ pc[t] = "l_pop"
    /\ events' = [events EXCEPT ![mkey[t]] = 0]
    /\ pc' = [pc EXCEPT ![t] = "l_store"]
    /\ UNCHANGED <<now, closed, capacity, nolock, peer, late, slock, rlog, clearing, wlog, shardVars,
                   stripes, wbVars, coreLock, policy, arg, batch, evicted, waiting, ret,
                   maintVars, ops, last, mttl, evs, mid, mkey, mve, pcalls, asyncVars>>

\* self._cache.set(key, result, self._timeout)
LegacyStore(t) ==
    /\ pc[t] = "l_store"
    /\ smap' = [smap EXCEPT ![mkey[t]] = Entry(evs[mid[t]].data, 0)]
    /\ pc' = [pc EXCEPT ![t] = "l_set"]
    /\ UNCHANGED <<now, closed, capacity, nolock, peer, late, slock, rlog, clearing, wlog, keymap, hits,
                   misses, stripes, wbVars, coreLock, policy, arg, batch, evicted, waiting, ret,
                   maintVars, ops, last, memoVars>>

\* event.event.set() and the return of result
LegacySetEvent(t) ==
    /\ pc[t] = "l_set"
    /\ evs' = [evs EXCEPT ![mid[t]].set = TRUE]
    /\ ret' = [ret EXCEPT ![t] = [val |-> evs[mid[t]].data, ok |-> TRUE, err |-> FALSE]]
    /\ pc' = [pc EXCEPT ![t] = "idle"]
    /\ UNCHANGED <<now, closed, capacity, nolock, peer, late, slock, rlog, clearing, wlog, shardVars,
                   stripes, wbVars, coreLock, policy, arg, batch, evicted, waiting, maintVars,
                   ops, last, mttl, events, mid, mkey, mve, pcalls, asyncVars>>

\* ve.event.wait(); result = ve.data
LegacyWait(t) ==
    /\ pc[t] = "l_wait"
    /\ evs[mve[t]].set
    /\ ret' = [ret EXCEPT ![t] = [val |-> evs[mve[t]].data, ok |-> TRUE, err |-> FALSE]]
    /\ pc' = [pc EXCEPT ![t] = "idle"]
    /\ UNCHANGED <<now, closed, capacity, nolock, peer, late, slock, rlog, clearing, wlog, shardVars,
                   stripes, wbVars, coreLock, policy, arg, batch, evicted, waiting, maintVars,
                   ops, last, memoVars>>

(***************************************************************************)
(* Workload: two threads call the older memoizer, created with lock=True   *)
(* and no timeout, on two keys.                                            *)
(***************************************************************************)
LegacyKeys == {"a", "c"}

LegacyNext ==
    \/ \E t \in CacheThreads, k \in LegacyKeys : ops < MaxLegacyCalls /\ LegacyCall(t, k)
    \/ \E t \in CacheThreads : LegacyClaim(t)
    \/ \E t \in CacheThreads : LegacyProduce(t)
    \/ \E t \in CacheThreads : LegacyPop(t)
    \/ \E t \in CacheThreads : LegacyStore(t)
    \/ \E t \in CacheThreads : LegacySetEvent(t)
    \/ \E t \in CacheThreads : LegacyWait(t)

LegacyInit == CacheInit({MaxCap + 1}) /\ MemoInitFor({NoTtl}, 1 .. MaxLegacyCalls)

SpecLegacy == LegacyInit /\ [][LegacyNext]_vars

\* C40: in the older memoizer with lock=True, with no eviction and no
\* expiry, the wrapped function is invoked at most once per key under every
\* interleaving of the callers, and a caller that has returned returns the
\* result of that one invocation.
C40_LegacyFetchOnce ==
    \A k \in LegacyKeys :
        /\ pcalls[k] <= 1
        /\ \A t \in CacheThreads :
               pc[t] = "idle" /\ mkey[t] = k =>
                   pcalls[k] = 1 /\ ret[t].ok /\ ret[t].val = ProducerValue(k)

=============================================================================
